---- MODULE Spec2Model ----
(***************************************************************************)
(* LeanInteract: the session cache (sessioncache.py) and the workspace     *)
(* orchestrator (workspace.py).                                            *)
(*                                                                         *)
(* The specifications that share the definitions of this module:           *)
(*   CacheSpec  one session cache (Replay or Pickle strategy) shared by    *)
(*              the Supervisors of the set CacheServers: requests are run  *)
(*              on, and restarts made of, the Supervisors of RunServers;   *)
(*              the other Supervisor only resolves and reloads;            *)
(*   Spec       one LeanWorkspace with its main Supervisor, its per-file   *)
(*              Supervisors and its PickleSessionCache, driven by requests *)
(*              of every kind on the files of SessionFiles;                *)
(*   ChangeSpec the same LeanWorkspace driven by file-backed commands on   *)
(*              every project file, edits of the files and the requests of *)
(*              ChangeRequests: change detection and lazy restarts;        *)
(*   AddSpec    one session cache whose add is called directly as well;    *)
(*   RaceSpec   one ReplaySessionCache whose get_repl_id is called by two  *)
(*              threads at once, one statement at a time;                  *)
(*   LifeSpec   the LeanWorkspace objects of one working directory: runs,  *)
(*              close, and further constructions;                          *)
(*   MutexSpec  one LeanWorkspace whose run and get_server_for_file are    *)
(*              called by two threads, one statement at a time;            *)
(*   SupervisorSpec  one automatic and one plain Supervisor with a         *)
(*              subprocess that times out, crashes and runs out of memory; *)
(*   CopySpec   one ReplaySessionCache and a caller that changes its       *)
(*              request objects after add;                                 *)
(*   PickleLockSpec  one PickleSessionCache whose add, remove, clear and   *)
(*              reload are called by two threads, one statement at a time; *)
(*   RestartAllSpec  one LeanWorkspace whose restart_file_server and       *)
(*              restart_all_servers are called by two threads, with fair   *)
(*              scheduling of the threads;                                 *)
(*   OwnershipSpec  one LeanWorkspace: runs, removals, clears,             *)
(*              invalidations of the dependency cache and closes.          *)
(* The Supervisor (LeanServer / AutoLeanServer, server.py), the REPL       *)
(* subprocess and the request and response classes (interface.py) follow   *)
(* the specification and the calls that sessioncache.py, workspace.py and  *)
(* the tests make of them.                                                 *)
(***************************************************************************)
EXTENDS Integers, Sequences, FiniteSets, TLC

\* ------------------------------------------------------------------ bounds
MaxHandles == 2      \* at most this many calls of add (the counter stays >= -MaxHandles)
MaxLocal == 2        \* a subprocess assigns the local ids 0 .. MaxLocal-1 in one life
MaxOps == 3          \* the state-changing operations performed in one behaviour
MaxInstances == 2    \* the LeanWorkspace objects constructed with success in one behaviour

\* --------------------------------------------------------------- constants
None == 1000         \* Python's None in an "int | None" field (never a real id)
MaxRestartAttempts == 2      \* max_restart_attempts of the automatic Supervisor

Cmds == {"thm"}                  \* a command that leaves one open proof state (a sorry)
ObjIds == {1, 2}                 \* id(request): the address of the caller's request object
MainServer == "srv_main"         \* LeanWorkspace._main_server
ProjectFiles == {"A.lean", "B.lean", "C.lean"}    \* the .lean files of the project directory
EditableFiles == {"A.lean"}              \* the files whose content changes while the workspace lives
FileNames == ProjectFiles \cup {"main", "explicit_server"}   \* keys of _file_servers
FileServer(f) == "srv_" \o f     \* the AutoLeanServer created for the key f
PlainServer == "srv_plain"       \* a LeanServer, which never restarts by itself
AllServers == {MainServer, PlainServer} \cup {FileServer(f) : f \in FileNames}
CacheServers == {MainServer, FileServer("A.lean")}
RunServers == {MainServer}

NoFile == <<>>
PickleFileOf(kind, oid) == <<kind, oid>>

\* ----------------------------------------------------- requests, responses
Req(kind, cmd, env, ps, path, pk) ==
    [kind |-> kind, cmd |-> cmd, env |-> env, path |-> path, proof_state |-> ps, pickle |-> pk]
Command(cmd, env) == Req("Command", cmd, env, None, "", NoFile)
ProofStep(ps) == Req("ProofStep", "tac", None, ps, "", NoFile)
FileCommand(path) == Req("FileCommand", "", None, None, path, NoFile)
PickleEnvironment(env, pk) == Req("PickleEnvironment", "", env, None, "", pk)
PickleProofState(ps, pk) == Req("PickleProofState", "", None, ps, "", pk)
UnpickleEnvironment(pk) == Req("UnpickleEnvironment", "", None, None, "", pk)
UnpickleProofState(pk, env) == Req("UnpickleProofState", "", env, None, "", pk)
NoReq == Req("none", "", None, None, "", NoFile)

\* A response object: its fields env and proof_state, and the attribute proofState
\* that only model_copy(update={"proofState": ...}) sets (None: no such attribute).
Resp(kind, env, ps) == [kind |-> kind, env |-> env, proof_state |-> ps, proofState |-> None]
CommandResponse(env) == Resp("CommandResponse", env, None)
ProofStepResponse(ps) == Resp("ProofStepResponse", None, ps)
LeanError == Resp("LeanError", None, None)
NoResp == Resp("none", None, None)

\* ------------------------------------------------------------------- state
VARIABLES
    cache,        \* _cache: handle -> SessionState (a function on the handles present)
    counter,      \* _state_counter
    lazy,         \* ReplaySessionCache._lazy
    strategy,     \* "replay" (ReplaySessionCache) or "pickle" (PickleSessionCache)
    sub,          \* per Supervisor: the REPL subprocess (next env id, next proof-state id)
    files,        \* the pickle files on disk: file -> "env" | "ps"
    cache_of,     \* "supervisors": the cache is the Supervisors' own session cache;
                  \* "workspace": it is LeanWorkspace._session_cache, and each
                  \* Supervisor's own session cache is empty
    file_servers,          \* the keys of LeanWorkspace._file_servers
    needs_restart,         \* LeanWorkspace._needs_restart
    file_content_hashes,   \* LeanWorkspace._file_content_hashes
    session_server_map,    \* LeanWorkspace._session_server_map
    dependency_graph,      \* TRUE when LeanWorkspace._dependency_graph is not None
    cache_dependencies,    \* LeanWorkspace.cache_dependencies
    disk,         \* the content of each .lean file of the project directory
    call,         \* the operation that was performed last, and what it did
    hist,         \* history: the handles returned by add to cached runs, in call order
    nops,         \* the number of state-changing operations performed so far
    threads,      \* the callers resolving a handle concurrently: per caller, its
                  \* position in get_repl_id and _materialize_state
    instances,    \* the LeanWorkspace objects of the working directory: lock, the holder
                  \* of .lean_workspace.lock (0: nobody); live, the objects constructed
                  \* and not closed; next, the number of the next object; rejected, the
                  \* constructions that failed; closed, the calls of close made on the
                  \* object constructed last
    workspace_lock,   \* LeanWorkspace._workspace_lock: the thread holding it ("": nobody)
    callers,      \* the threads calling run and get_server_for_file on one workspace
                  \* concurrently: per thread, its position in the call and its locals
    supervisors,  \* the AutoLeanServer objects made by _get_server_for_file: of, the
                  \* object stored under each key of _file_servers; made, the key each
                  \* object was made for, in order of creation (the object i is the
                  \* i-th made); busy, the objects inside a call of run (0: the main
                  \* server)
    objects,      \* the request objects of the caller: the value each object holds now
                  \* (a caller may change a request object after it has passed it to run)
    file_locks,   \* the FileLocks "<pickle_file>.lock" that are held: file -> holder
    accessors     \* the threads calling one PickleSessionCache concurrently: per
                  \* thread, its position in the call and its locals

wsvars == <<file_servers, needs_restart, file_content_hashes, session_server_map,
            dependency_graph, cache_dependencies, disk>>
runvars == <<workspace_lock, callers, supervisors>>
lockvars == <<file_locks, accessors>>
vars == <<cache, counter, lazy, strategy, sub, files, cache_of, wsvars, call, hist, nops,
          threads, instances, runvars, objects,
          lockvars>>

\* A cache entry (SessionState, ReplaySessionState, PickleSessionState).  repl_ids is
\* total here: a missing key and a None value read alike through dict.get.
Entry(isps, req, pk) ==
    [is_proof_state |-> isps,
     repl_ids |-> [s \in AllServers |-> None],
     request |-> req,
     pickle_file |-> pk,
     materializing |-> {},
     origin |-> [s |-> "", local |-> None],   \* history: the Supervisor and local id at add
     touched |-> {}]       \* history: the Supervisors restarted or reloaded since add

Put(c, h, e) == [k \in DOMAIN c \cup {h} |-> IF k = h THEN e ELSE c[k]]
Drop(c, h) == [k \in DOMAIN c \ {h} |-> c[k]]
Empty == [k \in {} |-> 0]

\* The running state of one operation: the data it reads and writes, the requests it
\* has written to subprocesses so far, and how it ends.
\*   failAt: the position, among the requests the operation writes to subprocesses,
\*           of the request that is answered with an ErrorResponse (0: none is); an
\*           input of every operation
\*   fwd:    the requests the workspace has passed to target_server.run, with the target
\*   restarts: the Supervisors restarted, each with the number of requests written
\*           to subprocesses before its restart
\*   deps:   the set get_file_dependencies returns
\*   high:   the number of readings of the machine's memory, from the start of the
\*           operation, that are above the ceiling (an input of run)
\*   fault:  what happens to the request of a run once it is written: "none" (it is
\*           answered), "timeout" or "crash" (an input of run)
Run0(failAt) ==
    [cache |-> cache, counter |-> counter, sub |-> sub, files |-> files,
     file_servers |-> file_servers, needs_restart |-> needs_restart,
     file_content_hashes |-> file_content_hashes,
     session_server_map |-> session_server_map,
     dependency_graph |-> dependency_graph, cache_dependencies |-> cache_dependencies,
     failAt |-> failAt, sends |-> <<>>, fwd |-> <<>>, restarts |-> <<>>,
     err |-> "none", resp |-> NoResp, result |-> None, deps |-> {},
     high |-> 0, fault |-> "none"]

Raise(st, e) == [st EXCEPT !.err = e]

\* ------------------------------------------------------- the REPL subprocess
\* The ids a fresh subprocess hands out start at 0 and count up; a request naming an
\* id the subprocess does not hold is answered with an error.
\* up: the process runs; spent: the Supervisor has used up its restart attempts.
FreshSub == [envs |-> 0, pss |-> 0, up |-> TRUE, spent |-> FALSE]

\* The subprocess of a Supervisor after kill(): it does not run and holds no ids.
KilledSub == [FreshSub EXCEPT !.up = FALSE]

EnvOk(sb, e) == e = None \/ (0 <= e /\ e < sb.envs)
PsOk(sb, p) == 0 <= p /\ p < sb.pss

SubReply(sb, fl, req) ==
    CASE req.kind = "Command" /\ EnvOk(sb, req.env) ->
            [sub |-> [sb EXCEPT !.envs = @ + 1,
                                !.pss = @ + (IF req.cmd = "thm" THEN 1 ELSE 0)],
             files |-> fl, resp |-> CommandResponse(sb.envs)]
      [] req.kind = "FileCommand" ->
            [sub |-> [sb EXCEPT !.envs = @ + 1], files |-> fl, resp |-> CommandResponse(sb.envs)]
      [] req.kind = "ProofStep" /\ PsOk(sb, req.proof_state) ->
            [sub |-> [sb EXCEPT !.pss = @ + 1], files |-> fl, resp |-> ProofStepResponse(sb.pss)]
      [] req.kind = "PickleEnvironment" /\ EnvOk(sb, req.env) /\ req.env # None ->
            [sub |-> sb, files |-> Put(fl, req.pickle, "env"), resp |-> CommandResponse(req.env)]
      [] req.kind = "PickleProofState" /\ PsOk(sb, req.proof_state) ->
            [sub |-> sb, files |-> Put(fl, req.pickle, "ps"),
             resp |-> ProofStepResponse(req.proof_state)]
      [] req.kind = "UnpickleEnvironment" /\ req.pickle \in DOMAIN fl /\ fl[req.pickle] = "env" ->
            [sub |-> [sb EXCEPT !.envs = @ + 1], files |-> fl, resp |-> CommandResponse(sb.envs)]
      [] req.kind = "UnpickleProofState" /\ req.pickle \in DOMAIN fl /\ fl[req.pickle] = "ps"
              /\ EnvOk(sb, req.env) ->
            [sub |-> [sb EXCEPT !.pss = @ + 1], files |-> fl, resp |-> ProofStepResponse(sb.pss)]
      [] OTHER -> [sub |-> sb, files |-> fl, resp |-> LeanError]

\* LeanServer.run_dict: write one request to the subprocess of s and read its answer.
Send(st, s, req) ==
    LET r == IF st.failAt = Len(st.sends) + 1
             THEN [sub |-> st.sub[s], files |-> st.files, resp |-> LeanError]
             ELSE SubReply(st.sub[s], st.files, req)
    IN [st EXCEPT !.sub[s] = r.sub,
                  !.files = r.files,
                  !.resp = r.resp,
                  !.sends = Append(@, [req |-> req, resp |-> r.resp, srv |-> s])]

\* The session handle a request refers to (a negative env or proof-state id), or None.
RefHandle(req) ==
    IF req.env # None /\ req.env < 0 THEN req.env
    ELSE IF req.proof_state # None /\ req.proof_state < 0 THEN req.proof_state
    ELSE None

WithLocalId(req, id) ==
    IF req.env # None /\ req.env < 0 THEN [req EXCEPT !.env = id]
    ELSE [req EXCEPT !.proof_state = id]

\* ------------------------------------------- AutoLeanServer.run, resolving
RECURSIVE SrvRun(_, _, _), MaterializeState(_, _, _), ReplayGetReplId(_, _, _)

\* PickleSessionCache.get_repl_id: the recorded id, None included; never a request.
PickleGetReplId(st, h, s) ==
    IF h \notin DOMAIN st.cache THEN Raise(st, "KeyError")
    ELSE [st EXCEPT !.result = st.cache[h].repl_ids[s]]

\* BaseSessionCache.get_repl_id of the cache in use.
GetReplId(st, h, s) ==
    IF strategy = "replay" THEN ReplayGetReplId(st, h, s) ELSE PickleGetReplId(st, h, s)

\* AutoLeanServer.run, after the handle of the request was resolved with outcome r: a
\* handle that has no local id fails, else the request goes out with the local id.
SrvRunResolved(r, s, req) ==
    IF r.err # "none" THEN r
    ELSE IF r.result = None THEN Raise(r, "UnknownHandle")
    ELSE Send(r, s, WithLocalId(req, r.result))

\* AutoLeanServer.run with add_to_session_cache=False: a negative id of the request is
\* resolved through the Supervisor's own session cache, then the request is written to
\* the subprocess.  The Supervisors of a workspace have session caches of their own,
\* which stay empty: there every handle is unknown.
SrvRun(st, s, req) ==
    IF RefHandle(req) = None THEN Send(st, s, req)
    ELSE IF cache_of = "workspace" THEN Raise(st, "KeyError")
    ELSE SrvRunResolved(GetReplId(st, RefHandle(req), s), s, req)

\* a materialization that replays the request but does not record the fresh id
MaterializeRecordNothing(r, s, h) == r

\* ReplaySessionCache._materialize_state, lines 194-209: r is the outcome of the replay.
MaterializeRecord(r, s, h) ==
    IF r.err # "none" THEN r
    ELSE IF r.resp.kind = "LeanError" THEN Raise(r, "ValueError")
    ELSE IF r.cache[h].is_proof_state
    THEN IF r.resp.kind # "ProofStepResponse" THEN Raise(r, "ValueError")
         ELSE [r EXCEPT !.cache[h].repl_ids[s] = r.resp.proof_state]
    ELSE IF r.resp.kind # "CommandResponse" THEN Raise(r, "ValueError")
         ELSE [r EXCEPT !.cache[h].repl_ids[s] = r.resp.env]

\* the re-entrancy guard _materializing_servers around the replay (try / finally)
GuardOn(st, s, h) == [st EXCEPT !.cache[h].materializing = @ \cup {s}]
\* a replay that leaves the guard set
GuardKept(st, s, h) == st
GuardOff(st, s, h) == [st EXCEPT !.cache[h].materializing = @ \ {s}]

\* an add that keeps the caller's request object itself: a replay then reads what
\* that object holds now (the object passed to the add of the handle h is object -h)
StoredRequestShared(st, h) == objects[0 - h]

\* ReplaySessionCache._materialize_state, line 187: the request kept in the entry, which
\* is the deep copy add made of the caller's request (line 230)
StoredRequest(st, h) == st.cache[h].request

\* ReplaySessionCache._materialize_state
MaterializeState(st, s, h) ==
    IF st.cache[h].repl_ids[s] # None THEN st
    ELSE IF s \in st.cache[h].materializing THEN Raise(st, "RuntimeError")
    ELSE MaterializeRecord(
             GuardOff(SrvRun(GuardOn(st, s, h), s, StoredRequest(st, h)), s, h), s, h)

\* ReplaySessionCache.get_repl_id, lines 281-282: m is the outcome of materializing.
ReadBack(m, h, s) ==
    IF m.err # "none" THEN m ELSE [m EXCEPT !.result = m.cache[h].repl_ids[s]]

\* ReplaySessionCache.get_repl_id
ReplayGetReplId(st, h, s) ==
    IF h \notin DOMAIN st.cache THEN Raise(st, "KeyError")
    ELSE IF st.cache[h].repl_ids[s] # None
    THEN [st EXCEPT !.result = st.cache[h].repl_ids[s]]
    ELSE ReadBack(MaterializeState(st, s, h), h, s)

\* ------------------------------------------------------------ add
LocalOf(resp) == IF resp.kind = "ProofStepResponse" THEN resp.proof_state ELSE resp.env

\* an add that does not record the local id of the creating Supervisor
NewEntryUnrecorded(s, req, pk, resp) ==
    [Entry(resp.kind = "ProofStepResponse", req, pk) EXCEPT
        !.origin = [s |-> s, local |-> LocalOf(resp)]]

\* The entry add stores for the response resp of Supervisor s.
NewEntry(s, req, pk, resp) ==
    [Entry(resp.kind = "ProofStepResponse", req, pk) EXCEPT
        !.repl_ids[s] = LocalOf(resp),
        !.origin = [s |-> s, local |-> LocalOf(resp)]]

\* an add that stores an entry whatever the response is
ReplayAddAny(st, s, req, resp) ==
    [st EXCEPT !.counter = @ - 1,
               !.cache = Put(@, st.counter - 1, NewEntry(s, req, NoFile, resp)),
               !.result = st.counter - 1]

\* ReplaySessionCache.add: the stored request is a deep copy of the caller's.
ReplayAdd(st, s, req, resp) ==
    IF resp.kind \notin {"ProofStepResponse", "CommandResponse"}
    THEN [st EXCEPT !.counter = @ - 1, !.err = "NotImplementedError"]
    ELSE [st EXCEPT !.counter = @ - 1,
                    !.cache = Put(@, st.counter - 1, NewEntry(s, req, NoFile, resp)),
                    !.result = st.counter - 1]

\* PickleSessionCache.add, lines 337-347: r is the outcome of the pickle request.
PickleStore(r, s, pk, resp) ==
    IF r.err # "none" THEN r
    ELSE IF r.resp.kind = "LeanError" THEN Raise(r, "ValueError")
    ELSE [r EXCEPT !.cache = Put(@, r.counter, NewEntry(s, NoReq, pk, resp)),
                   !.result = r.counter]

\* The request PickleSessionCache.add sends for the response resp.
PickleRequest(resp, pk) ==
    IF resp.kind = "ProofStepResponse" THEN PickleProofState(resp.proof_state, pk)
    ELSE PickleEnvironment(resp.env, pk)

\* PickleSessionCache.add: oid is id(request), which names the pickle file.
PickleAdd(st, s, req, oid, resp) ==
    IF resp.kind \notin {"ProofStepResponse", "CommandResponse"}
    THEN [st EXCEPT !.counter = @ - 1, !.err = "NotImplementedError"]
    ELSE PickleStore(SrvRun([st EXCEPT !.counter = @ - 1], s,
                            PickleRequest(resp, PickleFileOf(req.kind, oid))),
                     s, PickleFileOf(req.kind, oid), resp)

\* an add that gives the handle back when it fails
AddRestoring(st, s, req, oid, resp) ==
    IF strategy = "replay"
    THEN [ReplayAdd(st, s, req, resp) EXCEPT
             !.counter = IF ReplayAdd(st, s, req, resp).err # "none" THEN st.counter ELSE @]
    ELSE [PickleAdd(st, s, req, oid, resp) EXCEPT
             !.counter = IF PickleAdd(st, s, req, oid, resp).err # "none" THEN st.counter
                         ELSE @]

Add(st, s, req, oid, resp) ==
    IF strategy = "replay" THEN ReplayAdd(st, s, req, resp) ELSE PickleAdd(st, s, req, oid, resp)

\* ------------------------------------------------------------ remove, clear
\* ReplaySessionCache.remove
ReplayRemove(st, h) ==
    IF h \in DOMAIN st.cache THEN [st EXCEPT !.cache = Drop(st.cache, h)] ELSE st

\* PickleSessionCache.remove: the backing file goes with the entry.
PickleRemove(st, h) ==
    IF h \in DOMAIN st.cache
    THEN [st EXCEPT !.cache = Drop(st.cache, h),
                    !.files = Drop(st.files, st.cache[h].pickle_file)]
    ELSE st

Remove(st, h) ==
    IF strategy = "replay" THEN ReplayRemove(st, h) ELSE PickleRemove(st, h)

\* The handles in dict order: the order of insertion, newest last.
Oldest(hs) == CHOOSE h \in hs : \A k \in hs : k <= h
RECURSIVE InOrder(_)
InOrder(hs) ==
    IF hs = {} THEN <<>> ELSE <<Oldest(hs)>> \o InOrder(hs \ {Oldest(hs)})

\* a clear that also starts the numbering again (the code never resets the counter)
ReplayClearResetting(st) == [st EXCEPT !.cache = Empty, !.counter = 0]

\* ReplaySessionCache.clear
ReplayClear(st) == [st EXCEPT !.cache = Empty]

\* PickleSessionCache.clear: remove() for each entry
RECURSIVE PickleClearFrom(_, _)
PickleClearFrom(st, order) ==
    IF order = <<>> THEN st ELSE PickleClearFrom(PickleRemove(st, Head(order)), Tail(order))

PickleClear(st) == PickleClearFrom(st, InOrder(DOMAIN st.cache))

Clear(st) == IF strategy = "replay" THEN ReplayClear(st) ELSE PickleClear(st)

\* ------------------------------------------------------------ reload
RECURSIVE ReplayReloadFrom(_, _, _), PickleReloadFrom(_, _, _)

\* a reload that forgets the entry instead of invalidating its local id
ReplayReloadOneDropping(st, s, h) == [st EXCEPT !.cache = Drop(@, h)]

\* a reload that leaves the local id of the dead subprocess in place
ReplayReloadOneKeeping(st, s, h) == st

\* a reload that clears the local ids of every Supervisor
ReplayReloadOneAll(st, s, h) ==
    [st EXCEPT !.cache[h].repl_ids = [x \in AllServers |-> None]]

\* ReplaySessionCache.reload, one turn of the loop: the entry is cleared for s and,
\* when the cache is not lazy, materialized again.
ReplayReloadOne(st, s, h) ==
    IF lazy THEN [st EXCEPT !.cache[h].repl_ids[s] = None]
    ELSE MaterializeState([st EXCEPT !.cache[h].repl_ids[s] = None], s, h)

\* the rest of the loop after a turn with outcome r: an exception ends the loop
ReplayReloadRest(r, s, order) ==
    IF r.err # "none" THEN r ELSE ReplayReloadFrom(r, s, order)

ReplayReloadFrom(st, s, order) ==
    IF order = <<>> THEN st
    ELSE ReplayReloadRest(ReplayReloadOne(st, s, Head(order)), s, Tail(order))

\* ReplaySessionCache.reload
ReplayReload(st, s) == ReplayReloadFrom(st, s, InOrder(DOMAIN st.cache))

\* PickleSessionCache.reload, the request of one turn of the loop
UnpickleRequest(state, s) ==
    IF state.is_proof_state
    THEN UnpickleProofState(state.pickle_file, state.repl_ids[s])
    ELSE UnpickleEnvironment(state.pickle_file)

\* PickleSessionCache.reload, lines 376-387: r is the outcome of the unpickle request.
PickleReloadRest(r, s, h, order) ==
    IF r.err # "none" THEN r
    ELSE IF r.resp.kind = "LeanError" THEN Raise(r, "ValueError")
    ELSE IF r.resp.kind = "CommandResponse"
    THEN PickleReloadFrom([r EXCEPT !.cache[h].repl_ids[s] = r.resp.env], s, order)
    ELSE IF r.resp.kind = "ProofStepResponse"
    THEN PickleReloadFrom([r EXCEPT !.cache[h].repl_ids[s] = r.resp.proof_state], s, order)
    ELSE Raise(r, "ValueError")

PickleReloadFrom(st, s, order) ==
    IF order = <<>> THEN st
    ELSE PickleReloadRest(SrvRun(st, s, UnpickleRequest(st.cache[Head(order)], s)),
                          s, Head(order), Tail(order))

\* PickleSessionCache.reload
PickleReload(st, s) == PickleReloadFrom(st, s, InOrder(DOMAIN st.cache))

Reload(st, s) == IF strategy = "replay" THEN ReplayReload(st, s) ELSE PickleReload(st, s)

\* ------------------------------------------------ operations on one cache
\* The record of an operation: op its name, s the Supervisor it was given ("" for
\* none), h the handle it was given or its request refers to, req and add the
\* arguments of run, then how it ended: the exception, the value or response
\* returned, the requests written to subprocesses and those passed to Supervisors,
\* and the inputs high and fault of a run.
NoCall ==
    [req |-> NoReq, s |-> "", h |-> None, sends |-> <<>>, fwd |-> <<>>, restarts |-> <<>>,
     err |-> "none", resp |-> NoResp, result |-> None, deps |-> {},
     high |-> 0, fault |-> "none", op |-> "init", add |-> FALSE]

Done(op, s, h, req, add, st) ==
    [req |-> req, s |-> s, h |-> h, sends |-> st.sends, fwd |-> st.fwd,
     restarts |-> st.restarts, err |-> st.err, resp |-> st.resp, result |-> st.result,
     deps |-> st.deps, high |-> st.high, fault |-> st.fault, op |-> op, add |-> add]

InBounds(st) ==
    /\ st.counter >= 0 - MaxHandles
    /\ \A s \in AllServers : st.sub[s].envs <= MaxLocal /\ st.sub[s].pss <= MaxLocal

\* hist after an operation: a run that asked for caching and returned normally with
\* an environment or a proof-step response has called add, which returned st.result.
Logged(op, add, st) ==
    IF op = "run" /\ add /\ st.err = "none"
          /\ st.resp.kind \in {"CommandResponse", "ProofStepResponse"}
    THEN Append(hist, st.result)
    ELSE hist

\* Resolving a handle is not counted among the operations of a behaviour.
Cost(op) == IF op = "get_repl_id" THEN 0 ELSE 1

\* An operation ends in st: the state it leaves and the record of it.
Finish(op, s, h, req, add, st) ==
    /\ nops + Cost(op) <= MaxOps
    /\ InBounds(st)
    /\ nops' = nops + Cost(op)
    /\ cache' = st.cache
    /\ counter' = st.counter
    /\ sub' = st.sub
    /\ files' = st.files
    /\ file_servers' = st.file_servers
    /\ needs_restart' = st.needs_restart
    /\ file_content_hashes' = st.file_content_hashes
    /\ session_server_map' = st.session_server_map
    /\ dependency_graph' = st.dependency_graph
    /\ cache_dependencies' = st.cache_dependencies
    /\ call' = Done(op, s, h, req, add, st)
    /\ hist' = Logged(op, add, st)
    /\ UNCHANGED <<lazy, strategy, cache_of, disk, threads, objects, lockvars, instances, runvars>>

\* The requests a caller issues: a command on no environment or on a handle; a proof
\* step on the local proof state 0 or on a handle.
HandleIds == (0 - MaxHandles) .. (0 - 1)
CallerRequests ==
    {Command(c, e) : c \in Cmds, e \in {None} \cup HandleIds}
        \cup {ProofStep(p) : p \in {0} \cup HandleIds}
FailAts == {0, 1, 2}
\* The responses a client hands to add: an environment, a proof state, an error.
AddedResponses == {CommandResponse(0), ProofStepResponse(0), LeanError}

\* The response handed back by a cached run: the handle in place of the local id.
WithHandle(resp, h) ==
    IF resp.kind = "CommandResponse" THEN [resp EXCEPT !.env = h]
    ELSE [resp EXCEPT !.proof_state = h]

\* AutoLeanServer.run, after add returned with outcome a for the response resp
AutoRunAdded(a, resp) ==
    IF a.err # "none" THEN a ELSE [a EXCEPT !.resp = WithHandle(resp, a.result)]

\* AutoLeanServer.run, after the request was answered with outcome r
AutoRunAnswered(r, s, req, oid, add) ==
    IF r.err # "none" \/ ~add \/ r.resp.kind = "LeanError" THEN r
    ELSE AutoRunAdded(Add(r, s, req, oid, r.resp), r.resp)

\* AutoLeanServer.run(request, add_to_session_cache=add)
AutoRun(st, s, req, oid, add) == AutoRunAnswered(SrvRun(st, s, req), s, req, oid, add)

\* A restart or a reload of s is remembered in the entries present when it starts.
Touch(st, s) ==
    [st EXCEPT !.cache = [h \in DOMAIN @ |-> [@[h] EXCEPT !.touched = @ \cup {s}]]]

\* LeanServer.restart: the subprocess is killed and a fresh one started.
Respawn(st, s) ==
    [st EXCEPT !.sub[s] = FreshSub,
               !.restarts = Append(@, [s |-> s, at |-> Len(st.sends)])]

CRun(s, req, oid, add, failAt) ==
    Finish("run", s, RefHandle(req), req, add, AutoRun(Run0(failAt), s, req, oid, add))

\* add called by a client with a response of its choice; the record of the call keeps
\* that response as long as add writes nothing to a subprocess.
CAdd(s, req, oid, resp) ==
    Finish("add", s, None, req, TRUE, Add([Run0(0) EXCEPT !.resp = resp], s, req, oid, resp))

CGet(h, s, failAt) ==
    Finish("get_repl_id", s, h, NoReq, FALSE, GetReplId(Run0(failAt), h, s))

\* AutoLeanServer.restart: LeanServer.restart, then the Supervisor's own session cache
\* is reloaded for it (the own cache of a workspace's Supervisor is empty).
SrvRestart(st, s) ==
    IF cache_of = "workspace" THEN Touch(Respawn(st, s), s)
    ELSE Reload(Touch(Respawn(st, s), s), s)

CRestart(s, failAt) ==
    Finish("restart", s, None, NoReq, FALSE, SrvRestart(Run0(failAt), s))

CReload(s, failAt) ==
    Finish("reload", s, None, NoReq, FALSE, Reload(Touch(Run0(failAt), s), s))

CRemove(h) == Finish("remove", "", h, NoReq, FALSE, Remove(Run0(0), h))

CClear == Finish("clear", "", None, NoReq, FALSE, Clear(Run0(0)))

\* ------------------------------------------------ the life of a Supervisor
\* LeanServer.kill: the subprocess is terminated (a second kill changes nothing).
Kill(st, s) == [st EXCEPT !.sub[s] = [KilledSub EXCEPT !.spent = st.sub[s].spent]]

\* a Supervisor that gives up without remembering that it did
GiveUpForgetting(st, s) == Raise(Kill(st, s), "MemoryError")

\* The restart attempts are used up: the subprocess is killed, the Supervisor is Dead
\* for good, and the call fails with MemoryError.
GiveUp(st, s) ==
    Raise([st EXCEPT !.sub[s] = [KilledSub EXCEPT !.spent = TRUE]], "MemoryError")

\* The health policy of the automatic Supervisor before a send: for each reading of
\* the memory above the ceiling the subprocess is killed and restarted, which uses one
\* of the max_restart_attempts attempts; a reading above the ceiling when none is left
\* makes the Supervisor give up.
RECURSIVE HealthPolicy(_, _, _, _)
HealthPolicy(st, s, high, used) ==
    IF high = 0 \/ st.err # "none" THEN st
    ELSE IF used >= MaxRestartAttempts THEN GiveUp(st, s)
    ELSE HealthPolicy(SrvRestart(st, s), s, high - 1, used + 1)

\* The request is written to the subprocess, which does not answer it.
Unanswered(st, s, req) ==
    [st EXCEPT !.sends = Append(@, [req |-> req, resp |-> NoResp, srv |-> s])]

\* a timeout that leaves the subprocess running
TimedOutAlive(st, s, req) == Raise(Unanswered(st, s, req), "TimeoutError")

\* LeanServer.run_dict, no answer within the timeout: the subprocess is killed and
\* the call fails with TimeoutError.
TimedOut(st, s, req) == Raise(Kill(Unanswered(st, s, req), s), "TimeoutError")

\* a crash that is reported as a timeout
CrashedAsTimeout(st, s, req) == TimedOut(st, s, req)

\* LeanServer.run_dict, the subprocess exits or the pipe breaks before the answer: the
\* call fails with ConnectionAbortedError; the subprocess is gone.
Crashed(st, s, req) == Raise(Kill(Unanswered(st, s, req), s), "ConnectionAbortedError")

\* LeanServer.run_dict on a running subprocess, with the fault of the call
Transmit(st, s, req) ==
    CASE st.fault = "timeout" -> TimedOut(st, s, req)
      [] st.fault = "crash" -> Crashed(st, s, req)
      [] OTHER -> Send(st, s, req)

\* a LeanServer that is started again by run
PlainRunReviving(st, s, req) == Transmit([st EXCEPT !.sub[s] = FreshSub], s, req)

\* LeanServer.run: a Supervisor whose subprocess does not run fails with
\* ChildProcessError and writes nothing.
PlainRun(st, s, req) ==
    IF ~st.sub[s].up THEN Raise(st, "ChildProcessError") ELSE Transmit(st, s, req)

\* an automatic Supervisor that never starts a subprocess by itself
NeverStart(st, s) == st

\* AutoLeanServer.run, after the health policy: a subprocess that does not run is
\* replaced by a fresh one (restart).
StartIfDown(st, s) == IF st.err # "none" \/ st.sub[s].up THEN st ELSE SrvRestart(st, s)

\* AutoLeanServer.run, with a running subprocess or an exception raised before
LifeRunReady(r, s, req, oid, add) ==
    IF r.err # "none" THEN r
    ELSE IF r.fault # "none" THEN Transmit(r, s, req)
    ELSE AutoRun(r, s, req, oid, add)

\* AutoLeanServer.run(request, add_to_session_cache=add) with its health policy: a
\* Supervisor that has given up fails with ChildProcessError.
LifeRun(st, s, req, oid, add) ==
    IF st.sub[s].spent THEN Raise(st, "ChildProcessError")
    ELSE LifeRunReady(StartIfDown(HealthPolicy(st, s, st.high, 0), s), s, req, oid, add)

\* kill() of the Supervisor s
LKill(s) == Finish("kill", s, None, NoReq, FALSE, Kill(Run0(0), s))

\* run on the Supervisor s, automatic or not, with the inputs high and fault
LRun(s, req, add, high, fault) ==
    Finish("run", s, RefHandle(req), req, add,
           IF s = PlainServer
           THEN PlainRun([Run0(0) EXCEPT !.high = high, !.fault = fault], s, req)
           ELSE LifeRun([Run0(0) EXCEPT !.high = high, !.fault = fault], s, req, 1, add))

\* restart() of the running automatic Supervisor
LRestart(s) == sub[s].up /\ CRestart(s, 0)

\* The callers of RaceSpec, and a caller that is not inside get_repl_id.
Threads == {"T1", "T2"}
ThreadIdle ==
    [s |-> "", h |-> None, err |-> "none", resp |-> NoResp, result |-> None,
     pc |-> "idle", sent |-> FALSE]

\* A thread that is in no call of the workspace: op the method it called last, f the
\* key it named, req and add the arguments of run, changed the local changed_files of
\* _check_project_changes, server the object the call obtained (None: none, 0: the
\* main server), resp the response it holds.
CallerIdle ==
    [f |-> "", req |-> NoReq, resp |-> NoResp, op |-> "", add |-> FALSE, pc |-> "idle",
     changed |-> {}, server |-> None]

\* A thread that is in no call of the PickleSessionCache: op the method it called
\* last, s its lean_server, h the handle it works on, file its local pickle_file, todo
\* the states its loop has still to visit, size the length of the dict when its
\* iterator was made, resp the response add was given.
AccessIdle ==
    [s |-> "", h |-> None, err |-> "none", resp |-> NoResp, op |-> "", pc |-> "idle",
     file |-> NoFile, todo |-> <<>>, size |-> 0]

\* The request objects of a caller that never changes them.
NoObjects == [o \in ObjIds |-> NoReq]

\* A LeanWorkspace right after __init__ (also the workspace part of CacheSpec, which
\* never changes it).
WorkspaceInit ==
    /\ file_servers = {}
    /\ needs_restart = Empty
    /\ file_content_hashes = Empty
    /\ session_server_map = Empty
    /\ dependency_graph = FALSE
    /\ disk = [f \in ProjectFiles |-> 0]
    /\ instances = [lock |-> 1, live |-> {1}, next |-> 2, rejected |-> 0, closed |-> 0]
    /\ workspace_lock = ""
    /\ callers = [t \in Threads |-> CallerIdle]
    /\ supervisors = [of |-> Empty, made |-> <<>>, busy |-> {}]

CacheInit ==
    /\ \A q \in CallerRequests : q # NoReq        \* the inputs are requests and
    /\ \A r \in AddedResponses : r # NoResp       \* responses, never the placeholders
    /\ cache_of = "supervisors"
    /\ WorkspaceInit
    /\ cache_dependencies = TRUE
    /\ cache = Empty
    /\ counter = 0
    /\ strategy \in {"replay", "pickle"}
    /\ lazy \in IF strategy = "replay" THEN BOOLEAN ELSE {TRUE}
    /\ sub = [s \in AllServers |-> FreshSub]
    /\ files = Empty
    /\ call = NoCall
    /\ hist = <<>>
    /\ nops = 0
    /\ threads = [t \in Threads |-> ThreadIdle]
    /\ objects = NoObjects
    /\ file_locks = Empty
    /\ accessors = [t \in Threads |-> AccessIdle]

CacheNext ==
    \/ \E s \in RunServers, req \in CallerRequests, add \in BOOLEAN, failAt \in FailAts :
          \E oid \in (IF strategy = "pickle" /\ add THEN ObjIds ELSE {1}) :
             CRun(s, req, oid, add, failAt)
    \/ \E h \in HandleIds, s \in CacheServers, failAt \in FailAts : CGet(h, s, failAt)
    \/ \E s \in RunServers, failAt \in FailAts : CRestart(s, failAt)
    \/ \E s \in CacheServers, failAt \in FailAts : CReload(s, failAt)
    \/ \E h \in HandleIds : CRemove(h)
    \/ CClear

CacheSpec == CacheInit /\ [][CacheNext]_vars

\* One session cache whose add is also called by a client directly, with a response
\* of its choice for a command on no environment.
AddNext ==
    \/ \E s \in RunServers, resp \in AddedResponses : CAdd(s, Command("thm", None), 1, resp)
    \/ \E add \in BOOLEAN, failAt \in FailAts : CRun(MainServer, Command("thm", None), 1, add, failAt)
    \/ \E h \in HandleIds, s \in CacheServers, failAt \in FailAts : CGet(h, s, failAt)
    \/ \E s \in CacheServers, failAt \in FailAts : CReload(s, failAt)

AddSpec == CacheInit /\ [][AddNext]_vars

\* The values a caller gives to a request object.
ObjectValues == {Command("thm", None), ProofStep(0), Command("thm", 0 - 1)}

\* A ReplaySessionCache and a caller that keeps its request objects.
CopyInit ==
    /\ cache_of = "supervisors"
    /\ WorkspaceInit
    /\ cache_dependencies = TRUE
    /\ cache = Empty
    /\ counter = 0
    /\ strategy = "replay"
    /\ lazy \in BOOLEAN
    /\ sub = [s \in AllServers |-> FreshSub]
    /\ files = Empty
    /\ call = NoCall
    /\ hist = <<>>
    /\ nops = 0
    /\ threads = [t \in Threads |-> ThreadIdle]
    /\ objects \in [ObjIds -> ObjectValues]
    /\ file_locks = Empty
    /\ accessors = [t \in Threads |-> AccessIdle]

\* run called with the request object oid; the object passed to the call that adds the
\* handle h is the object -h.
ORun(s, oid, add, failAt) ==
    /\ add => oid = 1 - counter
    /\ CRun(s, objects[oid], oid, add, failAt)

\* the caller assigns to the fields of its request object oid
MutateRequest(oid, req) ==
    /\ nops < MaxOps
    /\ nops' = nops + 1
    /\ objects[oid] # req
    /\ objects' = [objects EXCEPT ![oid] = req]
    /\ call' = [NoCall EXCEPT !.op = "mutate"]
    /\ UNCHANGED <<cache, counter, lazy, strategy, sub, files, cache_of, wsvars, hist,
                   threads, instances, runvars, lockvars>>

CopyNext ==
    \/ \E s \in RunServers, oid \in ObjIds, add \in BOOLEAN, failAt \in FailAts :
          ORun(s, oid, add, failAt)
    \/ \E oid \in ObjIds, req \in ObjectValues : MutateRequest(oid, req)
    \/ \E h \in HandleIds, s \in CacheServers, failAt \in FailAts : CGet(h, s, failAt)
    \/ \E s \in RunServers, failAt \in FailAts : CRestart(s, failAt)

CopySpec == CopyInit /\ [][CopyNext]_vars

\* ------------------------- one PickleSessionCache used by several threads
\* a FileLock that never makes anybody wait
FileLockFreeAlways(locks, file) == TRUE

\* with FileLock(f"{pickle_file}.lock"): the lock is taken when nobody holds it
FileLockFree(locks, file) == file \notin DOMAIN locks

\* One statement of the thread t: its position and locals become rec, the cache, the
\* counter, the subprocesses and the files those of st, the held locks become locks;
\* cost is 1 for the statement that enters a call.
AccessStep(t, rec, st, locks, cost) ==
    /\ nops + cost <= MaxOps
    /\ InBounds(st)
    /\ nops' = nops + cost
    /\ accessors' = [accessors EXCEPT ![t] = rec]
    /\ file_locks' = locks
    /\ cache' = st.cache
    /\ counter' = st.counter
    /\ sub' = st.sub
    /\ files' = st.files
    /\ UNCHANGED <<lazy, strategy, cache_of, wsvars, call, hist, threads, instances,
                   runvars, objects>>

\* AutoLeanServer.run(Command, add_to_session_cache=True) with the request object oid:
\* the command is answered with r, then add is entered.
ACallRun(t, s, oid, r) ==
    /\ accessors[t].pc = "idle"
    /\ AccessStep(t, [AccessIdle EXCEPT !.s = s, !.resp = r.resp, !.op = "add",
                                        !.pc = "count",
                                        !.file = PickleFileOf("Command", oid)],
                  r, file_locks, 1)

\* PickleSessionCache.add, line 313
ACount(t) ==
    /\ accessors[t].pc = "count"
    /\ AccessStep(t, [accessors[t] EXCEPT !.pc = "acquire"],
                  [Run0(0) EXCEPT !.counter = @ - 1], file_locks, 0)

\* FileLock.__enter__ (lines 335, 353, 361): the thread waits until the lock is free
AAcquire(t) ==
    /\ accessors[t].pc = "acquire"
    /\ FileLockFree(file_locks, accessors[t].file)
    /\ AccessStep(t, [accessors[t] EXCEPT
                         !.pc = CASE accessors[t].op = "add" -> "write"
                                  [] accessors[t].op = "reload" -> "read"
                                  [] OTHER -> "delete"],
                  Run0(0), Put(file_locks, accessors[t].file, t), 0)

\* FileLock.__enter__ with a timeout: the wait for a lock that is held ends with
\* filelock.Timeout, which leaves the call.
AGiveUp(t) ==
    /\ accessors[t].pc = "acquire"
    /\ ~FileLockFree(file_locks, accessors[t].file)
    /\ AccessStep(t, [accessors[t] EXCEPT !.pc = "idle", !.err = "Timeout"],
                  Run0(0), file_locks, 0)

\* PickleSessionCache.add, lines 336-340: r is the outcome of the pickle request
AWrite(t, r) ==
    /\ accessors[t].pc = "write"
    /\ AccessStep(t, [accessors[t] EXCEPT
                         !.err = IF r.resp.kind = "LeanError" THEN "ValueError" ELSE @,
                         !.pc = IF r.resp.kind = "LeanError" THEN "release" ELSE "store"],
                  r, file_locks, 0)

\* PickleSessionCache.add, lines 342-347: the entry goes under the key that
\* _state_counter holds now
AStore(t) ==
    /\ accessors[t].pc = "store"
    /\ AccessStep(t, [accessors[t] EXCEPT !.h = counter, !.pc = "release"],
                  PickleStore(Run0(0), accessors[t].s, accessors[t].file, accessors[t].resp),
                  file_locks, 0)

\* FileLock.__exit__: the lock is released; add and remove return, the loops of clear
\* and reload go on unless an exception leaves them.
ARelease(t) ==
    /\ accessors[t].pc = "release"
    /\ AccessStep(t, [accessors[t] EXCEPT
                         !.pc = IF accessors[t].op \in {"clear", "reload"}
                                     /\ accessors[t].err = "none"
                                THEN "next" ELSE "idle"],
                  Run0(0), Drop(file_locks, accessors[t].file), 0)

\* PickleSessionCache.remove, lines 351-352: rec is the thread entering remove (from
\* a call of remove, or from the loop of clear)
APop(t, rec, h, cost) ==
    IF h \in DOMAIN cache
    THEN AccessStep(t, [rec EXCEPT !.h = h, !.pc = "acquire",
                                   !.file = cache[h].pickle_file],
                    [Run0(0) EXCEPT !.cache = Drop(@, h)], file_locks, cost)
    ELSE AccessStep(t, [rec EXCEPT !.h = h], Run0(0), file_locks, cost)

ACallRemove(t, h) ==
    /\ accessors[t].pc = "idle"
    /\ APop(t, [AccessIdle EXCEPT !.op = "remove"], h, 1)

\* PickleSessionCache.remove, lines 354-355
ADelete(t) ==
    /\ accessors[t].pc = "delete"
    /\ AccessStep(t, [accessors[t] EXCEPT !.pc = "release"],
                  [Run0(0) EXCEPT !.files = Drop(@, accessors[t].file)], file_locks, 0)

\* PickleSessionCache.clear, line 393: list(self)
ACallClear(t) ==
    /\ accessors[t].pc = "idle"
    /\ AccessStep(t, [AccessIdle EXCEPT !.op = "clear", !.pc = "next",
                                        !.todo = InOrder(DOMAIN cache)],
                  Run0(0), file_locks, 1)

\* PickleSessionCache.clear, lines 393-395: the next turn of the loop, or the assert
AClearNext(t) ==
    /\ accessors[t].pc = "next"
    /\ accessors[t].op = "clear"
    /\ IF accessors[t].todo = <<>>
       THEN AccessStep(t, [accessors[t] EXCEPT
                              !.pc = "idle",
                              !.err = IF cache = Empty THEN "none" ELSE "AssertionError"],
                       Run0(0), file_locks, 0)
       ELSE APop(t, [accessors[t] EXCEPT !.todo = Tail(@)], Head(accessors[t].todo), 0)

\* PickleSessionCache.reload, line 358: iter(self._cache.values())
ACallReload(t, s) ==
    /\ accessors[t].pc = "idle"
    /\ AccessStep(t, [AccessIdle EXCEPT !.s = s, !.op = "reload", !.pc = "next",
                                        !.todo = InOrder(DOMAIN cache),
                                        !.size = Cardinality(DOMAIN cache)],
                  Run0(0), file_locks, 1)

\* PickleSessionCache.reload, line 358: the next turn of the loop; the iterator of a
\* dict that was changed meanwhile raises RuntimeError
AReloadNext(t) ==
    /\ accessors[t].pc = "next"
    /\ accessors[t].op = "reload"
    /\ AccessStep(t,
          IF accessors[t].todo = <<>> THEN [accessors[t] EXCEPT !.pc = "idle"]
          ELSE IF Cardinality(DOMAIN cache) # accessors[t].size
                     \/ Head(accessors[t].todo) \notin DOMAIN cache
          THEN [accessors[t] EXCEPT !.pc = "idle", !.err = "RuntimeError"]
          ELSE [accessors[t] EXCEPT !.h = Head(accessors[t].todo), !.todo = Tail(@),
                                    !.pc = "acquire",
                                    !.file = cache[Head(accessors[t].todo)].pickle_file],
          Run0(0), file_locks, 0)

\* PickleSessionCache.reload, lines 364-387: r is the outcome of the unpickle request
\* (the states of this cache are environments); the local id goes into the state
\* object, which may have left the dict meanwhile
ARead(t, r) ==
    /\ accessors[t].pc = "read"
    /\ AccessStep(t, [accessors[t] EXCEPT
                         !.err = IF r.resp.kind = "CommandResponse" THEN @ ELSE "ValueError",
                         !.pc = "release"],
                  IF /\ r.resp.kind = "CommandResponse"
                     /\ accessors[t].h \in DOMAIN r.cache
                     /\ r.cache[accessors[t].h].pickle_file = accessors[t].file
                  THEN [r EXCEPT !.cache[accessors[t].h].repl_ids[accessors[t].s] = r.resp.env]
                  ELSE r,
                  file_locks, 0)

\* One PickleSessionCache used by two threads: cached runs on the main Supervisor,
\* reloads for the other Supervisor, removals and clears, one statement at a time.
PickleLockInit == CacheInit /\ strategy = "pickle"

PickleLockNext ==
    \E t \in Threads :
       \/ \E oid \in ObjIds :
             ACallRun(t, MainServer, oid, Send(Run0(0), MainServer, Command("thm", None)))
       \/ ACount(t)
       \/ AAcquire(t)
       \/ AGiveUp(t)
       \/ AWrite(t, Send(Run0(0), accessors[t].s,
                         PickleRequest(accessors[t].resp, accessors[t].file)))
       \/ AStore(t)
       \/ ARelease(t)
       \/ \E h \in HandleIds : ACallRemove(t, h)
       \/ ADelete(t)
       \/ ACallClear(t)
       \/ AClearNext(t)
       \/ ACallReload(t, FileServer("A.lean"))
       \/ AReloadNext(t)
       \/ ARead(t, Send(Run0(0), accessors[t].s, UnpickleEnvironment(accessors[t].file)))

PickleLockSpec == PickleLockInit /\ [][PickleLockNext]_vars

\* The requests of SupervisorSpec, the faults of a run, and the readings of the
\* memory above the ceiling at the start of a run.
LifeRequests == {Command("thm", None), Command("thm", 0 - 1)}
Faults == {"none", "timeout", "crash"}
HighReadings == 0..(MaxRestartAttempts + 1)

\* An automatic Supervisor with a session cache of its own and a plain one, each
\* run, killed and (the automatic one) restarted, under memory pressure, timeouts and
\* crashes of the subprocess; a fault hits the request of a run that refers to no
\* handle.
SupervisorNext ==
    \/ \E req \in LifeRequests, add \in BOOLEAN, high \in HighReadings :
          \E fault \in (IF RefHandle(req) = None THEN Faults ELSE {"none"}) :
             LRun(MainServer, req, add, high, fault)
    \/ \E fault \in Faults : LRun(PlainServer, Command("thm", None), FALSE, 0, fault)
    \/ \E s \in {MainServer, PlainServer} : LKill(s)
    \/ LRestart(MainServer)

SupervisorSpec == CacheInit /\ [][SupervisorNext]_vars

\* ------------------------------------------ get_repl_id called by two threads
\* One statement of the caller t: its position and locals become rec, and the cache,
\* the subprocesses and the files become those of st.
ThreadStep(t, rec, st) ==
    /\ threads' = [threads EXCEPT ![t] = rec]
    /\ cache' = st.cache
    /\ sub' = st.sub
    /\ files' = st.files
    /\ UNCHANGED <<counter, lazy, strategy, cache_of, wsvars, call, hist, nops, instances,
                   objects, lockvars,
                   runvars>>

\* ReplaySessionCache.get_repl_id, lines 277-279: the entry and its id for s are read
TResolve(t, h, s) ==
    /\ threads[t].pc = "idle"
    /\ h \in DOMAIN cache
    /\ ThreadStep(t,
                  IF cache[h].repl_ids[s] # None
                  THEN [ThreadIdle EXCEPT !.pc = "done", !.h = h, !.s = s,
                                          !.result = cache[h].repl_ids[s]]
                  ELSE [ThreadIdle EXCEPT !.pc = "materialize", !.h = h, !.s = s],
                  Run0(0))

\* ReplaySessionCache._materialize_state, lines 182-186: the id is read again, then
\* the guard is tested
TMaterialize(t) ==
    /\ threads[t].pc = "materialize"
    /\ ThreadStep(t,
                  IF cache[threads[t].h].repl_ids[threads[t].s] # None
                  THEN [threads[t] EXCEPT !.pc = "done",
                                          !.result = cache[threads[t].h].repl_ids[threads[t].s]]
                  ELSE IF threads[t].s \in cache[threads[t].h].materializing
                  THEN [threads[t] EXCEPT !.pc = "done", !.err = "RuntimeError"]
                  ELSE [threads[t] EXCEPT !.pc = "replay"],
                  Run0(0))

\* ReplaySessionCache._materialize_state, lines 188-190: the guard is set and the
\* request of the entry is run on s (the Supervisor serializes its calls)
TReplay(t, st) ==
    /\ threads[t].pc = "replay"
    /\ InBounds(st)
    /\ ThreadStep(t, [threads[t] EXCEPT !.pc = "release", !.sent = TRUE,
                                        !.resp = st.resp, !.err = st.err], st)

\* ReplaySessionCache._materialize_state, lines 191-192: finally, the guard is dropped
TGuardOff(t) ==
    /\ threads[t].pc = "release"
    /\ ThreadStep(t, [threads[t] EXCEPT
                         !.pc = IF threads[t].err # "none" THEN "done" ELSE "record"],
                  GuardOff(Run0(0), threads[t].s, threads[t].h))

\* ReplaySessionCache._materialize_state, lines 194-209, and get_repl_id, lines 281-282:
\* st is the outcome of recording the response the caller holds
TRecord(t, st) ==
    /\ threads[t].pc = "record"
    /\ ThreadStep(t, [threads[t] EXCEPT !.pc = "done", !.err = st.err,
                                        !.result = IF st.err # "none" THEN None
                                                   ELSE st.cache[threads[t].h]
                                                          .repl_ids[threads[t].s]], st)

RaceInit == CacheInit /\ strategy = "replay"

RaceNext ==
    \/ CRun(MainServer, Command("thm", None), 1, TRUE, 0)
    \/ \E t \in Threads, h \in HandleIds, s \in CacheServers : TResolve(t, h, s)
    \/ \E t \in Threads : TMaterialize(t)
    \/ \E t \in Threads :
          TReplay(t, SrvRun(GuardOn(Run0(0), threads[t].s, threads[t].h), threads[t].s,
                            cache[threads[t].h].request))
    \/ \E t \in Threads : TGuardOff(t)
    \/ \E t \in Threads :
          TRecord(t, MaterializeRecord([Run0(0) EXCEPT !.resp = threads[t].resp],
                                       threads[t].s, threads[t].h))

RaceSpec == RaceInit /\ [][RaceNext]_vars

\* ======================================================== the session cache
\* The requests among the records of sends.
RECURSIVE RequestsOf(_)
RequestsOf(sends) ==
    IF sends = <<>> THEN <<>> ELSE <<Head(sends).req>> \o RequestsOf(Tail(sends))

\* The operation that has just been performed is a cached run that returned a
\* response to its caller.
CachedRunReturned(c) ==
    /\ c.op = "run" /\ c.add /\ c.err = "none"
    /\ c.resp.kind \in {"CommandResponse", "ProofStepResponse"}

\* C4: every handle a successful cached call returns is strictly negative and strictly
\* smaller than every handle returned before it, whatever removes and clears came in
\* between; so no handle is returned twice.  The handle is what the caller finds in
\* the response of the Supervisor's cached run.
C4_HandlesDecrease ==
    /\ \A i \in 1 .. Len(hist) :
          /\ hist[i] < 0
          /\ \A j \in 1 .. (i - 1) : hist[i] < hist[j]
    /\ (cache_of = "supervisors" /\ CachedRunReturned(call)) =>
          (Len(hist) > 0 /\ LocalOf(call.resp) = hist[Len(hist)])

\* two successful cached calls with the first handle gone from the cache in between
C4_Witness ==
    /\ cache_of = "supervisors"
    /\ CachedRunReturned(call)
    /\ Len(hist) = 2
    /\ hist[1] \notin DOMAIN cache
    /\ hist[2] \in DOMAIN cache

\* C7: a restart of a Supervisor with the reload of the cache for it, and a reload
\* alone, keep the set of handles and each handle's stored request and pickle file
\* path; a step that takes a handle out of the cache is a remove or a clear.
C7_RestartKeepsHandles ==
    [][/\ call'.op \in {"restart", "reload"} =>
            /\ DOMAIN cache' = DOMAIN cache
            /\ \A h \in DOMAIN cache :
                  /\ cache'[h].request = cache[h].request
                  /\ cache'[h].pickle_file = cache[h].pickle_file
       /\ ~(DOMAIN cache \subseteq DOMAIN cache') => call'.op \in {"remove", "clear"}]_vars

\* a restart that found two handles in the cache and sent requests to reload them
C7_Witness ==
    /\ call.op = "restart"
    /\ Cardinality(DOMAIN cache) = 2
    /\ call.sends # <<>>

\* C8: get_repl_id of a handle against the Supervisor that created it, with no
\* restart and no reload of that Supervisor since the add, returns the local id
\* recorded by add and writes no request to the subprocess.
C8_ResolveOnCreator ==
    (/\ call.op = "get_repl_id"
     /\ call.h \in DOMAIN cache
     /\ cache[call.h].origin.s = call.s
     /\ call.s \notin cache[call.h].touched)
        => (/\ call.err = "none"
            /\ call.result = cache[call.h].origin.local
            /\ call.sends = <<>>)

\* such a resolve, while the other Supervisor has been reloaded since the add
C8_Witness ==
    /\ call.op = "get_repl_id"
    /\ call.h \in DOMAIN cache
    /\ cache[call.h].origin.s = call.s
    /\ call.s \notin cache[call.h].touched
    /\ cache[call.h].touched # {}
    /\ call.result = cache[call.h].origin.local

\* The handles get_repl_id(h, s) has to materialize in the cache c: h itself when it
\* has no local id for s, then the handle its stored request refers to, and so on.
RECURSIVE Unmaterialized(_, _, _)
Unmaterialized(c, h, s) ==
    IF h \notin DOMAIN c \/ strategy # "replay" \/ c[h].repl_ids[s] # None THEN 0
    ELSE 1 + (IF RefHandle(c[h].request) = None THEN 0
              ELSE Unmaterialized(c, RefHandle(c[h].request), s))

\* The step resolves the handle call'.h against call'.s, which was restarted or
\* reloaded since the handle was added, and returns normally.
ResolveAfterRestart ==
    /\ call'.op = "get_repl_id"
    /\ call'.err = "none"
    /\ call'.h \in DOMAIN cache
    /\ call'.s \in cache[call'.h].touched

\* C9, as stated: after a restart and the invalidation of a lazy Replay cache, the
\* first resolve of a handle (it has no local id yet) sends exactly one request.
C9_OneRequest ==
    [][(/\ ResolveAfterRestart
        /\ strategy = "replay" /\ lazy
        /\ cache[call'.h].repl_ids[call'.s] = None)
          => Len(call'.sends) = 1]_vars

\* C9: a resolve after a restart sends one materialization request for each handle
\* that has no local id on the chain from the resolved handle through the handles the
\* stored requests refer to (exactly one when the handle's request refers to none or
\* to a materialized one), records the fresh local id and returns it; a resolve of a
\* handle that has a local id sends nothing and returns that id.
C9_ResolveAfterRestart ==
    [][ResolveAfterRestart =>
          /\ Len(call'.sends) = Unmaterialized(cache, call'.h, call'.s)
          /\ call'.result = cache'[call'.h].repl_ids[call'.s]
          /\ strategy = "replay" => call'.result # None
          /\ cache[call'.h].repl_ids[call'.s] # None =>
                /\ call'.result = cache[call'.h].repl_ids[call'.s]
                /\ cache' = cache]_vars

\* the first resolve after a restart: one request, the fresh id recorded and returned
C9_Witness ==
    /\ call.op = "get_repl_id" /\ call.err = "none"
    /\ strategy = "replay" /\ lazy
    /\ call.h \in DOMAIN cache
    /\ call.s \in cache[call.h].touched
    /\ Len(call.sends) = 1
    /\ call.result = cache[call.h].repl_ids[call.s]
    /\ call.result # None

\* In the cache c, h2 was created by a command run on the environment of h1, itself
\* created by a command on no handle.
Chained(c, h1, h2) ==
    /\ h1 \in DOMAIN c /\ h2 \in DOMAIN c
    /\ ~c[h1].is_proof_state /\ ~c[h2].is_proof_state
    /\ c[h1].request.kind = "Command" /\ RefHandle(c[h1].request) = None
    /\ c[h2].request.kind = "Command" /\ c[h2].request.env = h1

GraphNodes == {"A", "B", "C"}
DepEdges == {<<"B", "A">>}
Contents == {0, 1}                        \* what a .lean file may contain

\* LeanWorkspace._compute_file_hash: SHA-256 of the content
ComputeFileHash(content) == <<"sha256", content>>

\* the module name of a file path and back (workspace.py 324, 336)
ModuleName(f) ==
    CASE f = "A.lean" -> "A" [] f = "B.lean" -> "B" [] f = "C.lean" -> "C" [] OTHER -> f
FileOfModule(m) == m \o ".lean"

\* nx.ancestors(graph, n): the nodes with a path to n
Predecessors(ns) == {e[1] : e \in {d \in DepEdges : d[2] \in ns}}
RECURSIVE AncestorsFrom(_, _)
AncestorsFrom(ns, k) ==
    IF k = 0 THEN {} ELSE Predecessors(ns) \cup AncestorsFrom(Predecessors(ns), k - 1)
Ancestors(n) == AncestorsFrom({n}, Cardinality(GraphNodes))

\* LeanWorkspace._get_file_dependencies
GetFileDependencies(st, f) ==
    IF ~st.cache_dependencies \/ ~st.dependency_graph THEN {}
    ELSE IF ModuleName(f) \notin GraphNodes THEN {}
    ELSE {FileOfModule(m) : m \in Ancestors(ModuleName(f))}

\* _needs_restart with the flags of the files fs set
Flagged(nr, fs) == [k \in DOMAIN nr \cup fs |-> IF k \in fs THEN TRUE ELSE nr[k]]

\* a marking that, without a graph, flags only the changed files
MarkChangedFilesOnly(st, changed) ==
    [st EXCEPT !.needs_restart =
        Flagged(@, {f \in st.file_servers :
                      f \in changed \/ (st.cache_dependencies /\ st.dependency_graph
                                           /\ GetFileDependencies(st, f) \cap changed # {})})]

\* LeanWorkspace._mark_dependent_files_for_restart
MarkDependentFilesForRestart(st, changed) ==
    IF ~st.cache_dependencies \/ ~st.dependency_graph
    THEN [st EXCEPT !.needs_restart = Flagged(@, st.file_servers)]
    ELSE [st EXCEPT !.needs_restart =
              Flagged(@, {f \in st.file_servers :
                            f \in changed \/ GetFileDependencies(st, f) \cap changed # {}})]

\* the files _check_project_changes finds new or changed
ChangedFiles(st) ==
    {f \in DOMAIN disk : f \notin DOMAIN st.file_content_hashes
                            \/ st.file_content_hashes[f] # ComputeFileHash(disk[f])}

\* LeanWorkspace._check_project_changes, lines 203-205
MarkIfChanged(st, changed) ==
    IF changed = {} THEN st ELSE MarkDependentFilesForRestart(st, changed)

\* LeanWorkspace._check_project_changes, lines 174-201: the entries of deleted files
\* go and the hashes are brought up to date; then the servers concerned are flagged.
UpdateHashes(st) ==
    [st EXCEPT !.file_content_hashes = [f \in DOMAIN disk |-> ComputeFileHash(disk[f])],
               !.needs_restart =
                   [k \in {x \in DOMAIN @ : x \notin DOMAIN st.file_content_hashes
                                               \/ x \in DOMAIN disk} |-> @[k]]]

CheckProjectChanges(st) == MarkIfChanged(UpdateHashes(st), ChangedFiles(st))

\* LeanWorkspace.run, lines 627-634: the import graph is extracted when it is wanted
\* and missing; ok tells whether the extraction succeeds.
InitDependencyGraph(st, ok) ==
    IF st.cache_dependencies /\ ~st.dependency_graph
    THEN IF ok THEN [st EXCEPT !.dependency_graph = TRUE]
         ELSE [st EXCEPT !.cache_dependencies = FALSE]
    ELSE st

\* LeanWorkspace.restart_file_server
RestartFileServer(st, f) ==
    IF f \in st.file_servers
    THEN [SrvRestart(st, FileServer(f)) EXCEPT !.needs_restart = Put(@, f, FALSE)]
    ELSE st

\* LeanWorkspace._check_and_restart_if_needed
CheckAndRestartIfNeeded(st, f) ==
    IF f \in DOMAIN st.needs_restart /\ st.needs_restart[f]
    THEN [RestartFileServer(st, f) EXCEPT !.needs_restart = Put(@, f, FALSE)]
    ELSE st

\* LeanWorkspace._get_server_for_file, lines 230-232: a server is stored under f
CreateServer(st, f) ==
    [st EXCEPT !.file_servers = @ \cup {f}, !.needs_restart = Put(@, f, FALSE)]

\* LeanWorkspace._get_server_for_file: the server of the key f, created when missing
GetServerForFile(st, f) == IF f \notin st.file_servers THEN CreateServer(st, f) ELSE st

\* getattr(request, "env", None) and getattr(request, "proofState", None): the
\* proof-state field of a request is the attribute proof_state, and no request has
\* an attribute proofState.
GetAttrEnv(req) == req.env
GetAttrProofState(req) == None

\* LeanWorkspace._get_session_server ("" stands for None)
GetSessionServer(st, id) ==
    IF id = None \/ id >= 0 THEN ""
    ELSE IF id \in DOMAIN st.session_server_map THEN st.session_server_map[id]
    ELSE ""

\* LeanWorkspace._route_to_session_server
RouteToSessionServer(st, req) ==
    IF GetAttrEnv(req) # None /\ GetAttrEnv(req) < 0
          /\ GetSessionServer(st, GetAttrEnv(req)) # ""
    THEN GetSessionServer(st, GetAttrEnv(req))
    ELSE IF GetAttrProofState(req) # None /\ GetAttrProofState(req) < 0
          /\ GetSessionServer(st, GetAttrProofState(req)) # ""
    THEN GetSessionServer(st, GetAttrProofState(req))
    ELSE "default"

\* LeanWorkspace._resolve_session_ids: an entry of the cache has no attribute repl_id,
\* so that reading it for a handle of the cache raises AttributeError; in every other
\* case the request comes back as it was (a copy of it when an id is negative).
ResolveSessionIds(st, req) ==
    IF st.err # "none" THEN st
    ELSE IF GetAttrEnv(req) # None /\ GetAttrEnv(req) < 0
              /\ GetAttrEnv(req) \in DOMAIN st.cache
    THEN Raise(st, "AttributeError")
    ELSE IF GetAttrProofState(req) # None /\ GetAttrProofState(req) < 0
              /\ GetAttrProofState(req) \in DOMAIN st.cache
    THEN Raise(st, "AttributeError")
    ELSE st

\* response.model_copy(update=...) of _add_to_workspace_session_cache: the update
\* writes the attribute it names, env or proofState.
ModelCopy(resp, id) ==
    IF resp.kind = "CommandResponse" THEN [resp EXCEPT !.env = id]
    ELSE [resp EXCEPT !.proofState = id]

\* LeanWorkspace._add_to_workspace_session_cache, lines 384-390: a is the outcome of add
RecordOwner(a, filename, resp) ==
    IF a.err # "none" THEN a
    ELSE [a EXCEPT !.session_server_map = Put(@, a.result, filename),
                   !.resp = ModelCopy(resp, a.result)]

\* LeanWorkspace._add_to_workspace_session_cache
AddToWorkspaceSessionCache(st, filename, s, req, oid, resp) ==
    IF resp.kind \in {"CommandResponse", "ProofStepResponse"}
    THEN RecordOwner(PickleAdd(st, s, req, oid, resp), filename, resp)
    ELSE st

\* a run that caches whatever was asked and whatever the response is
CacheAnsweredAlways(r, filename, s, req, oid, add) ==
    IF r.err # "none" THEN r
    ELSE AddToWorkspaceSessionCache(r, filename, s, req, oid, r.resp)

\* LeanWorkspace.run, lines 675-679: r is the outcome of target_server.run
CacheAnswered(r, filename, s, req, oid, add) ==
    IF r.err # "none" THEN r
    ELSE IF add /\ r.resp.kind # "LeanError"
    THEN AddToWorkspaceSessionCache(r, filename, s, req, oid, r.resp)
    ELSE r

\* LeanWorkspace.run, lines 666-679: the request is passed to the run of the target
\* Supervisor s, unless an exception has ended the call before.
Forward(st, filename, s, req, oid, add) ==
    IF st.err # "none" THEN st
    ELSE CacheAnswered(SrvRun([st EXCEPT !.fwd = Append(@, [req |-> req, to |-> s])], s, req),
                       filename, s, req, oid, add)

\* LeanWorkspace.run with a server given, lines 613-619
RunExplicit(st, req, oid, add, server) ==
    IF req.kind = "FileCommand" THEN Forward(st, "explicit_server", server, req, oid, add)
    ELSE Forward(ResolveSessionIds(st, req), "explicit_server", server, req, oid, add)

\* LeanWorkspace.run of a FileCommand, lines 622-651
RunFile(st, req, oid, add, ok) ==
    Forward(GetServerForFile(
                CheckAndRestartIfNeeded(
                    InitDependencyGraph(CheckProjectChanges(st), ok), req.path), req.path),
            req.path, FileServer(req.path), req, oid, add)

\* LeanWorkspace.run of another request, lines 653-664, routed to the key filename
RunRouted(st, req, oid, add, filename) ==
    IF filename = "default"
    THEN Forward(ResolveSessionIds(st, req), "main", MainServer, req, oid, add)
    ELSE Forward(ResolveSessionIds(GetServerForFile(st, filename), req),
                 filename, FileServer(filename), req, oid, add)

\* a run that routes by the request alone, whatever server it is given
WorkspaceRunAuto(st, req, oid, add, server, ok) ==
    IF req.kind = "FileCommand" THEN RunFile(st, req, oid, add, ok)
    ELSE RunRouted(st, req, oid, add, RouteToSessionServer(st, req))

\* LeanWorkspace.run
WorkspaceRun(st, req, oid, add, server, ok) ==
    IF server # "" THEN RunExplicit(st, req, oid, add, server)
    ELSE IF req.kind = "FileCommand" THEN RunFile(st, req, oid, add, ok)
    ELSE RunRouted(st, req, oid, add, RouteToSessionServer(st, req))

\* a removal that forgets the ownership map
RemoveFromCacheOnly(st, h) == PickleRemove(st, h)

\* LeanWorkspace.remove_from_session_cache
RemoveFromSessionCache(st, h) ==
    [PickleRemove(st, h) EXCEPT !.session_server_map = Drop(@, h)]

\* LeanWorkspace.clear_session_cache
ClearSessionCache(st) == [PickleClear(st) EXCEPT !.session_server_map = Empty]

\* LeanWorkspace.get_file_dependencies: the graph is extracted when it is wanted and
\* missing (ok tells whether that succeeds); a failure returns the empty set.
PublicGetFileDependencies(st, f, ok) ==
    IF st.cache_dependencies /\ ~st.dependency_graph
    THEN IF ok
         THEN [st EXCEPT !.dependency_graph = TRUE,
                         !.deps = GetFileDependencies([st EXCEPT !.dependency_graph = TRUE], f)]
         ELSE st
    ELSE [st EXCEPT !.deps = GetFileDependencies(st, f)]

\* ------------------------------------------- operations on the workspace
SessionFiles == {"A.lean", "B.lean"}
WorkspaceRequests == CallerRequests \cup {FileCommand(f) : f \in SessionFiles}

\* the servers a caller can hand to run: the main server and the file servers it
\* obtained from the workspace
KnownServers == {MainServer} \cup {FileServer(f) : f \in file_servers}

\* whether the extraction of the import graph succeeds, where run attempts it
ExtractionOutcomes(req, server) ==
    IF req.kind = "FileCommand" /\ server = "" /\ cache_dependencies /\ ~dependency_graph
    THEN BOOLEAN ELSE {TRUE}

Run(req, oid, add, server, ok, failAt) ==
    Finish("run", server, RefHandle(req), req, add,
           WorkspaceRun(Run0(failAt), req, oid, add, server, ok))

GetServer(f) ==
    Finish("get_server_for_file", "", None, NoReq, FALSE, GetServerForFile(Run0(0), f))

Restart(f) ==
    Finish("restart_file_server", "", None, NoReq, FALSE, RestartFileServer(Run0(0), f))

Remove1(h) ==
    Finish("remove_from_session_cache", "", h, NoReq, FALSE, RemoveFromSessionCache(Run0(0), h))

ClearAll ==
    Finish("clear_session_cache", "", None, NoReq, FALSE, ClearSessionCache(Run0(0)))

\* (the record of the call names the file in its field s)
GetDependencies(f, ok) ==
    Finish("get_file_dependencies", f, None, NoReq, FALSE,
           PublicGetFileDependencies(Run0(0), f, ok))

\* the user edits a file of the project
EditFile(f, cost) ==
    /\ nops < MaxOps
    /\ nops' = nops + cost
    /\ disk' = [disk EXCEPT ![f] = 1 - @]
    /\ call' = [NoCall EXCEPT !.op = "edit"]
    /\ UNCHANGED <<cache, counter, lazy, strategy, sub, files, cache_of, file_servers,
                   needs_restart, file_content_hashes, session_server_map,
                   dependency_graph, cache_dependencies, hist, threads, objects, lockvars,
                   instances,
                   runvars>>

\* The requests of ChangeSpec: a file-backed command on any project file, a command on
\* no environment and a command on the first handle.
ChangeRequests ==
    {FileCommand(f) : f \in ProjectFiles} \cup {Command("thm", None), Command("thm", 0 - 1)}

Init ==
    /\ \A q \in WorkspaceRequests : q # NoReq     \* the inputs are requests, never
    /\ \A q \in ChangeRequests : q # NoReq        \* the placeholder
    /\ cache_of = "workspace"
    /\ WorkspaceInit
    /\ cache_dependencies \in BOOLEAN
    /\ cache = Empty
    /\ counter = 0
    /\ strategy = "pickle"
    /\ lazy = TRUE
    /\ sub = [s \in AllServers |-> FreshSub]
    /\ files = Empty
    /\ call = NoCall
    /\ hist = <<>>
    /\ nops = 0
    /\ threads = [t \in Threads |-> ThreadIdle]
    /\ objects = NoObjects
    /\ file_locks = Empty
    /\ accessors = [t \in Threads |-> AccessIdle]

Next ==
    \/ \E req \in WorkspaceRequests, add \in BOOLEAN, server \in {""} \cup KnownServers,
          failAt \in FailAts :
          \E oid \in (IF add THEN ObjIds ELSE {1}), ok \in ExtractionOutcomes(req, server) :
             Run(req, oid, add, server, ok, failAt)
    \/ \E f \in SessionFiles : GetServer(f)
    \/ \E f \in SessionFiles : Restart(f)
    \/ \E h \in HandleIds : Remove1(h)
    \/ ClearAll
    \/ \E f \in SessionFiles : EditFile(f, 1)

Spec == Init /\ [][Next]_vars

\* In ChangeSpec the edits of files are not counted among the operations, and every
\* request is answered without error.
ChangeNext ==
    \/ \E req \in ChangeRequests, add \in BOOLEAN, server \in {""} \cup KnownServers :
          \E ok \in ExtractionOutcomes(req, server) : Run(req, 1, add, server, ok, 0)
    \/ \E f \in ProjectFiles : GetServer(f)
    \/ \E f \in ProjectFiles : Restart(f)
    \/ \E f \in ProjectFiles, ok \in BOOLEAN : GetDependencies(f, ok)
    \/ \E f \in EditableFiles : EditFile(f, 0)

ChangeSpec == Init /\ [][ChangeNext]_vars

\* ------------------------------------------------ construction and close
\* a lock that anybody acquires at any time
LockFreeAlways(w) == TRUE

\* FileLock.acquire(timeout=0.1) on .lean_workspace.lock succeeds: no other lock
\* object holds the file.
LockFree(w) == w.lock = 0

\* a close that clears the session cache and the owner map, and nothing else
WorkspaceCloseCacheOnly(st) == ClearSessionCache(st)

\* LeanWorkspace.close on the state st, lines 731-751: the session cache and the owner
\* map are cleared, the file servers and the main server killed, and the per-file
\* tables emptied.
WorkspaceClose(st) ==
    [ClearSessionCache(st) EXCEPT
        !.sub = [s \in AllServers |->
                    IF s = MainServer \/ \E f \in st.file_servers : s = FileServer(f)
                    THEN KilledSub ELSE @[s]],
        !.file_servers = {},
        !.file_content_hashes = Empty,
        !.needs_restart = Empty]

\* LeanWorkspace(config, cache_dependencies=cd) for the same working directory.  When
\* the lock is taken, __init__ raises RuntimeError before it sets any other field;
\* the __del__ of the failed object calls close, which raises on the missing
\* _workspace_lock before it reaches the release, and __del__ swallows that.
Construct(cd) ==
    /\ nops < MaxOps
    /\ instances.next <= MaxInstances
    /\ nops' = nops + 1
    /\ IF LockFree(instances)
       THEN /\ instances' = [instances EXCEPT !.lock = instances.next,
                                              !.live = @ \cup {instances.next},
                                              !.next = @ + 1,
                                              !.closed = 0]
            /\ cache' = Empty
            /\ counter' = 0
            /\ sub' = [s \in AllServers |-> FreshSub]
            /\ file_servers' = {}
            /\ needs_restart' = Empty
            /\ file_content_hashes' = Empty
            /\ session_server_map' = Empty
            /\ dependency_graph' = FALSE
            /\ cache_dependencies' = cd
            /\ hist' = <<>>
            /\ call' = [NoCall EXCEPT !.op = "construct"]
       ELSE /\ instances' = [instances EXCEPT !.rejected = @ + 1]
            /\ call' = [NoCall EXCEPT !.op = "construct", !.err = "RuntimeError"]
            /\ UNCHANGED <<cache, counter, sub, wsvars, hist>>
    /\ UNCHANGED <<lazy, strategy, cache_of, files, disk, threads, objects, lockvars, runvars>>

\* LeanWorkspace.close of the workspace constructed last (the one whose fields the
\* model holds), closed before or not: with outcome st of lines 731-751, then the
\* release of the file lock, which does nothing when this object does not hold it.
Close(st) ==
    /\ instances.next > 1
    /\ nops < MaxOps
    /\ nops' = nops + 1
    /\ cache' = st.cache
    /\ files' = st.files
    /\ sub' = st.sub
    /\ file_servers' = st.file_servers
    /\ needs_restart' = st.needs_restart
    /\ file_content_hashes' = st.file_content_hashes
    /\ session_server_map' = st.session_server_map
    /\ instances' = [instances EXCEPT
                         !.live = @ \ {instances.next - 1},
                         !.lock = IF @ = instances.next - 1 THEN 0 ELSE @,
                         !.closed = @ + 1]
    /\ call' = [NoCall EXCEPT !.op = "close", !.err = st.err]
    /\ UNCHANGED <<counter, lazy, strategy, cache_of, dependency_graph, cache_dependencies,
                   disk, hist, threads, objects, lockvars, runvars>>

\* One working directory: the live workspace runs requests, is closed, and further
\* workspaces are constructed for the directory.
LifeNext ==
    \/ /\ instances.live # {}
       /\ \E req \in ChangeRequests, add \in BOOLEAN :
             \E ok \in ExtractionOutcomes(req, "") : Run(req, 1, add, "", ok, 0)
    \/ \E cd \in BOOLEAN : Construct(cd)
    \/ Close(WorkspaceClose(Run0(0)))

LifeSpec == Init /\ [][LifeNext]_vars

\* -------------------------------- the session cache and its ownership map
\* an invalidation that clears the session cache and keeps the ownership map
InvalidateCacheOnly(st) ==
    [PickleClear(st) EXCEPT !.dependency_graph = FALSE, !.file_content_hashes = Empty,
                            !.needs_restart = Empty]

\* LeanWorkspace.invalidate_dependency_cache, lines 454-461
InvalidateDependencyCache(st) ==
    [ClearSessionCache(st) EXCEPT !.dependency_graph = FALSE,
                                  !.file_content_hashes = Empty,
                                  !.needs_restart = Empty]

Invalidate ==
    Finish("invalidate_dependency_cache", "", None, NoReq, FALSE,
           InvalidateDependencyCache(Run0(0)))

\* One workspace: runs with and without a server given, with every fault of the
\* subprocess, removals, clears, invalidations and closes, in any order.
OwnershipNext ==
    \/ \E req \in WorkspaceRequests, add \in BOOLEAN, server \in {""} \cup KnownServers,
          failAt \in FailAts :
          \E oid \in (IF add THEN ObjIds ELSE {1}), ok \in ExtractionOutcomes(req, server) :
             Run(req, oid, add, server, ok, failAt)
    \/ \E h \in HandleIds : Remove1(h)
    \/ ClearAll
    \/ Invalidate
    \/ Close(WorkspaceClose(Run0(0)))

OwnershipSpec == Init /\ [][OwnershipNext]_vars

\* ------------------- run and get_server_for_file called by several threads
\* a lock that every thread acquires at once
AcquirableAlways(lock) == TRUE

\* `with self._workspace_lock:` is entered: no thread holds the threading.Lock
Acquirable(lock) == lock = ""

\* a Supervisor that lets every caller in at once
SupervisorFreeAlways(sv, i) == TRUE

\* The call lock of the Supervisor i is free: no caller is inside its run.
SupervisorFree(sv, i) == i \notin sv.busy

\* The name of the Supervisor a caller holds: object 0 is the main server, the others
\* are the servers of the key the caller named.
TargetOf(c) == IF c.server = 0 THEN MainServer ELSE FileServer(c.f)

\* A thread enters a method of the workspace; rec holds its arguments.
TCall(t, rec) ==
    /\ callers[t].pc \in {"idle", "done"}
    /\ nops < MaxOps
    /\ nops' = nops + 1
    /\ callers' = [callers EXCEPT ![t] = rec]
    /\ UNCHANGED <<cache, counter, lazy, strategy, sub, files, cache_of, wsvars, call, hist,
                   threads, objects, lockvars, instances, workspace_lock, supervisors>>

\* get_server_for_file(f), lines 503-513
TCallGetServer(t, f) ==
    TCall(t, [CallerIdle EXCEPT !.op = "get_server_for_file", !.f = f, !.pc = "acquire"])

\* run(request, add_to_session_cache=add) with no server given, lines 613-664, up to
\* the first statement that writes: a FileCommand starts with the check of the
\* project; a request that refers to no handle is routed to "default", which makes
\* the main server the target, and _resolve_session_ids leaves it as it is.
TCallRun(t, req, add) ==
    TCall(t, IF req.kind = "FileCommand"
             THEN [CallerIdle EXCEPT !.op = "run", !.req = req, !.add = add,
                                     !.f = req.path, !.pc = "check"]
             ELSE [CallerIdle EXCEPT !.op = "run", !.req = req, !.add = add,
                                     !.f = "main", !.server = 0, !.pc = "send"])

\* One statement of the thread t: its position and locals become rec, the data of the
\* workspace those of st, the lock and the Supervisor objects as given.
CallerStep(t, rec, st, lock, sv) ==
    /\ InBounds(st)
    /\ callers' = [callers EXCEPT ![t] = rec]
    /\ workspace_lock' = lock
    /\ supervisors' = sv
    /\ cache' = st.cache
    /\ counter' = st.counter
    /\ sub' = st.sub
    /\ files' = st.files
    /\ file_servers' = st.file_servers
    /\ needs_restart' = st.needs_restart
    /\ file_content_hashes' = st.file_content_hashes
    /\ session_server_map' = st.session_server_map
    /\ dependency_graph' = st.dependency_graph
    /\ cache_dependencies' = st.cache_dependencies
    /\ UNCHANGED <<lazy, strategy, cache_of, disk, call, hist, nops, threads, objects,
                   lockvars, instances>>

\* _check_project_changes, lines 174-201, called by run at line 624
TCheckHashes(t) ==
    /\ callers[t].pc = "check"
    /\ CallerStep(t, [callers[t] EXCEPT !.pc = "mark", !.changed = ChangedFiles(Run0(0))],
                  UpdateHashes(Run0(0)), workspace_lock, supervisors)

\* _check_project_changes, lines 203-205, and _mark_dependent_files_for_restart
TMark(t) ==
    /\ callers[t].pc = "mark"
    /\ CallerStep(t, [callers[t] EXCEPT !.pc = "graph"],
                  MarkIfChanged(Run0(0), callers[t].changed), workspace_lock, supervisors)

\* run, lines 627-634
TInitGraph(t, ok) ==
    /\ callers[t].pc = "graph"
    /\ CallerStep(t, [callers[t] EXCEPT !.pc = "flag"], InitDependencyGraph(Run0(0), ok),
                  workspace_lock, supervisors)

\* _check_and_restart_if_needed, line 426: the flag of the file is read
TCheckFlag(t) ==
    /\ callers[t].pc = "flag"
    /\ CallerStep(t, [callers[t] EXCEPT
                         !.pc = IF callers[t].f \in DOMAIN needs_restart
                                      /\ needs_restart[callers[t].f]
                                THEN "restart_acquire" ELSE "acquire"],
                  Run0(0), workspace_lock, supervisors)

\* `with self._workspace_lock:` of restart_file_server (438) and of
\* _get_server_for_file (228): the thread waits until it has the lock
TAcquire(t) ==
    /\ callers[t].pc \in {"restart_acquire", "acquire"}
    /\ Acquirable(workspace_lock)
    /\ CallerStep(t, [callers[t] EXCEPT
                         !.pc = IF callers[t].pc = "acquire" THEN "lookup" ELSE "restart"],
                  Run0(0), t, supervisors)

\* restart_file_server, lines 439-442
TRestart(t) ==
    /\ callers[t].pc = "restart"
    /\ CallerStep(t, [callers[t] EXCEPT !.pc = "restart_release"],
                  RestartFileServer(Run0(0), callers[t].f), workspace_lock, supervisors)

\* the end of a `with self._workspace_lock:` block
TRelease(t) ==
    /\ callers[t].pc \in {"restart_release", "release"}
    /\ CallerStep(t, [callers[t] EXCEPT
                         !.pc = CASE callers[t].pc = "release" -> "return"
                                  [] callers[t].op = "run" -> "unflag"
                                  [] callers[t].op = "restart_all_servers" -> "all_next"
                                  [] OTHER -> "done"],
                  Run0(0), "", supervisors)

\* _check_and_restart_if_needed, line 429
TUnflag(t) ==
    /\ callers[t].pc = "unflag"
    /\ CallerStep(t, [callers[t] EXCEPT !.pc = "acquire"],
                  [Run0(0) EXCEPT !.needs_restart = Put(@, callers[t].f, FALSE)],
                  workspace_lock, supervisors)

\* _get_server_for_file, line 229
TLookup(t) ==
    /\ callers[t].pc = "lookup"
    /\ CallerStep(t, [callers[t] EXCEPT
                         !.pc = IF callers[t].f \notin file_servers THEN "create"
                                ELSE "release"],
                  Run0(0), workspace_lock, supervisors)

\* _get_server_for_file, lines 230-232: a new AutoLeanServer is made and stored
TCreate(t) ==
    /\ callers[t].pc = "create"
    /\ CallerStep(t, [callers[t] EXCEPT !.pc = "release"],
                  CreateServer(Run0(0), callers[t].f), workspace_lock,
                  [supervisors EXCEPT !.of = Put(@, callers[t].f, Len(supervisors.made) + 1),
                                      !.made = Append(@, callers[t].f)])

\* _get_server_for_file, line 234, and get_server_for_file, line 513: the object
\* stored under the key is read and returned; run goes on with it as its target
TReturn(t) ==
    /\ callers[t].pc = "return"
    /\ CallerStep(t, [callers[t] EXCEPT !.server = supervisors.of[callers[t].f],
                                        !.pc = IF callers[t].op = "run" THEN "send"
                                               ELSE "done"],
                  Run0(0), workspace_lock, supervisors)

\* run, line 667: target_server.run is entered and the request written to the
\* subprocess, once the Supervisor lets the caller in
TSend(t) ==
    /\ callers[t].pc = "send"
    /\ SupervisorFree(supervisors, callers[t].server)
    /\ CallerStep(t, [callers[t] EXCEPT !.pc = "reply"], Run0(0), workspace_lock,
                  [supervisors EXCEPT !.busy = @ \cup {callers[t].server}])

\* run, lines 667-676: the subprocess has answered (st is the outcome) and
\* target_server.run returns
TReply(t, st) ==
    /\ callers[t].pc = "reply"
    /\ CallerStep(t, [callers[t] EXCEPT
                         !.resp = st.resp,
                         !.pc = IF st.err = "none" /\ callers[t].add
                                      /\ st.resp.kind # "LeanError"
                                THEN "cache" ELSE "done"],
                  st, workspace_lock,
                  [supervisors EXCEPT !.busy = @ \ {callers[t].server}])

\* run, line 677: _add_to_workspace_session_cache, with outcome st; the cache writes
\* its pickle request through the run of the target, once the Supervisor lets it in
TCacheAdd(t, st) ==
    /\ callers[t].pc = "cache"
    /\ SupervisorFree(supervisors, callers[t].server)
    /\ CallerStep(t, [callers[t] EXCEPT !.pc = "done", !.resp = st.resp], st,
                  workspace_lock, supervisors)

\* the requests of MutexSpec: a file-backed command and a command on no environment
MutexRequests == {FileCommand(f) : f \in SessionFiles} \cup {Command("thm", None)}

\* One workspace used by two threads, each statement of run that reads or writes
\* shared data a step of its own, while a file of the project is edited (an edit
\* counts among the operations).
MutexNext ==
    \/ \E t \in Threads, f \in SessionFiles : TCallGetServer(t, f)
    \/ \E t \in Threads, req \in MutexRequests, add \in BOOLEAN : TCallRun(t, req, add)
    \/ \E t \in Threads : TCheckHashes(t)
    \/ \E t \in Threads : TMark(t)
    \/ \E t \in Threads :
          \E ok \in (IF cache_dependencies /\ ~dependency_graph THEN BOOLEAN ELSE {TRUE}) :
             TInitGraph(t, ok)
    \/ \E t \in Threads : TCheckFlag(t)
    \/ \E t \in Threads : TAcquire(t)
    \/ \E t \in Threads : TRestart(t)
    \/ \E t \in Threads : TRelease(t)
    \/ \E t \in Threads : TUnflag(t)
    \/ \E t \in Threads : TLookup(t)
    \/ \E t \in Threads : TCreate(t)
    \/ \E t \in Threads : TReturn(t)
    \/ \E t \in Threads : TSend(t)
    \/ \E t \in Threads : TReply(t, SrvRun(Run0(0), TargetOf(callers[t]), callers[t].req))
    \/ \E t \in Threads :
          TCacheAdd(t, AddToWorkspaceSessionCache(Run0(0), callers[t].f, TargetOf(callers[t]),
                                                  callers[t].req, 1, callers[t].resp))
    \/ \E f \in EditableFiles : EditFile(f, 1)

MutexSpec == Init /\ [][MutexNext]_vars

\* --------------- restart_file_server and restart_all_servers called by threads
\* restart_file_server(f), line 431
TCallRestartFile(t, f) ==
    TCall(t, [CallerIdle EXCEPT !.op = "restart_file_server", !.f = f,
                                !.pc = "restart_acquire"])

\* restart_all_servers(), line 444
TCallRestartAll(t) ==
    TCall(t, [CallerIdle EXCEPT !.op = "restart_all_servers", !.pc = "all_acquire"])

\* restart_all_servers, lines 446-447: the thread waits until it has the lock, then
\* takes list(self._file_servers.keys()); changed holds the keys still to visit
TAllAcquire(t) ==
    /\ callers[t].pc = "all_acquire"
    /\ Acquirable(workspace_lock)
    /\ CallerStep(t, [callers[t] EXCEPT !.pc = "all_next", !.changed = file_servers],
                  Run0(0), t, supervisors)

\* the key of keys that was inserted first; made lists the keys as they were inserted
FirstKey(keys, made) ==
    made[CHOOSE i \in 1..Len(made) :
            made[i] \in keys /\ \A j \in 1..(i - 1) : made[j] \notin keys]

\* restart_all_servers, lines 447-448: the next key of the list goes to
\* restart_file_server; after the last one the `with` block ends, which releases the
\* lock, and the call returns
TAllNext(t) ==
    /\ callers[t].pc = "all_next"
    /\ IF callers[t].changed = {}
       THEN CallerStep(t, [callers[t] EXCEPT !.pc = "done"], Run0(0), "", supervisors)
       ELSE CallerStep(t, [callers[t] EXCEPT
                              !.f = FirstKey(callers[t].changed, supervisors.made),
                              !.changed = @ \ {FirstKey(callers[t].changed, supervisors.made)},
                                             !.pc = "restart_acquire"],
                       Run0(0), workspace_lock, supervisors)

\* the statements of the thread t between the entry of a call and its return
RestartSteps(t) ==
    \/ TAcquire(t)
    \/ TLookup(t)
    \/ TCreate(t)
    \/ TRestart(t)
    \/ TRelease(t)
    \/ TReturn(t)
    \/ TAllAcquire(t)
    \/ TAllNext(t)

\* One workspace on which two threads create unit Supervisors and restart one or all
\* of them.
RestartAllNext ==
    \/ \E t \in Threads, f \in SessionFiles : TCallGetServer(t, f)
    \/ \E t \in Threads, f \in SessionFiles : TCallRestartFile(t, f)
    \/ \E t \in Threads : TCallRestartAll(t)
    \/ \E t \in Threads : RestartSteps(t)

\* Every thread that can take a step is scheduled in the end; a restart of a
\* Supervisor is one step, so it terminates.
RestartAllSpec ==
    Init /\ [][RestartAllNext]_vars /\ \A t \in Threads : WF_vars(RestartSteps(t))

\* ============================================ claims about the workspace
\* The run just performed was given no server and a request that refers to the
\* handle call.h, which is in the workspace's cache and was created by a run that was
\* routed by the workspace.
RunOnCachedHandle ==
    /\ call.op = "run" /\ call.s = ""
    /\ call.h # None
    /\ call.h \in DOMAIN cache
    /\ call.h \in DOMAIN session_server_map
    /\ session_server_map[call.h] # "explicit_server"

\* C1: a request run without an explicit server that refers to a handle created by a
\* cached run on a unit is passed to the run of the Supervisor that created the handle.
C1_RoutedToOwner ==
    RunOnCachedHandle =>
        /\ call.fwd # <<>>
        /\ call.fwd[1].to = cache[call.h].origin.s

\* C2: a Command whose env is a handle created by a cached Command on the main
\* Supervisor, run without an explicit server, is passed to the main Supervisor and
\* does not fail.
C2_MainHandleReusable ==
    (/\ RunOnCachedHandle
     /\ call.req.kind = "Command"
     /\ call.req.env = call.h
     /\ ~cache[call.h].is_proof_state
     /\ cache[call.h].origin.s = MainServer
     /\ session_server_map[call.h] = "main")
        => /\ call.err = "none"
           /\ call.fwd # <<>>
           /\ call.fwd[1].to = MainServer

\* C3: no request the workspace passes to a Supervisor, and no request a Supervisor
\* writes to its subprocess, holds a negative env id or a negative proof-state id.
C3_NoNegativeForwarded ==
    /\ \A i \in 1 .. Len(call.fwd) : RefHandle(call.fwd[i].req) = None
    /\ \A i \in 1 .. Len(call.sends) : RefHandle(call.sends[i].req) = None

\* C5: the response of a successful cached run of the workspace carries the new
\* negative handle where the local id was: in env for an environment response, in
\* proof_state for a proof-step response.
C5_HandleInResponse ==
    (cache_of = "workspace" /\ CachedRunReturned(call))
        => /\ call.result < 0
           /\ LocalOf(call.resp) = call.result

\* C6: a run of the workspace that did not ask for caching, or whose response is an
\* error, leaves the handles of the session cache and the ownership map as they were;
\* a step that puts a new handle into the cache is a cached run that returned an
\* environment or a proof-step response.
C6_OnlyCachedSuccess ==
    [][/\ (call'.op = "run" /\ (~call'.add \/ call'.resp.kind = "LeanError"))
            => /\ DOMAIN cache' = DOMAIN cache
               /\ session_server_map' = session_server_map
       /\ ~(DOMAIN cache' \subseteq DOMAIN cache) => CachedRunReturned(call')]_vars

\* a run that asked for caching and was answered with an error, the cache holding a
\* handle of an earlier run
C6_Witness ==
    /\ cache_of = "workspace"
    /\ call.op = "run" /\ call.add /\ call.err = "none"
    /\ call.fwd # <<>>
    /\ call.resp.kind = "LeanError"
    /\ DOMAIN cache # {}
    /\ DOMAIN session_server_map = DOMAIN cache

\* C11: after a restart of a unit's Supervisor made through the workspace, no entry of
\* the workspace session cache holds a local id for that Supervisor (the workspace
\* never assigns one after the restart, so an id still present dates from before it).
C11_NoStaleLocalId ==
    cache_of = "workspace" =>
        \A h \in DOMAIN cache : \A s \in cache[h].touched : cache[h].repl_ids[s] = None

\* ============================= claims about change detection and restarts
\* The content of f differs from the one the workspace saw last (from the one it had
\* when the workspace was constructed, if the workspace has not hashed it yet).
ModifiedSinceSeen(f) ==
    IF f \in DOMAIN file_content_hashes
    THEN file_content_hashes[f] # ComputeFileHash(disk[f])
    ELSE disk[f] # 0

\* The Supervisor of the unit f exists and its pending-restart flag is not set.
Settled(f) ==
    f \in file_servers /\ f \in DOMAIN needs_restart /\ ~needs_restart[f]

\* The step is a file-backed command on f, routed by the workspace and answered, while
\* the import graph is loaded and A.lean is the only file modified.
FileRunAfterEditOfA(f) ==
    /\ call'.op = "run" /\ call'.s = "" /\ call'.err = "none"
    /\ call'.req = FileCommand(f)
    /\ cache_dependencies /\ dependency_graph
    /\ ModifiedSinceSeen("A.lean")
    /\ ~ModifiedSinceSeen("B.lean") /\ ~ModifiedSinceSeen("C.lean")

\* C12: B imports A and C is unrelated to A.  After A is modified, a request bound to
\* B restarts B's Supervisor exactly once, before the request is written to it, and a
\* request bound to C restarts nothing and leaves C's flag unset.
C12_DependentRestart ==
    [][/\ (FileRunAfterEditOfA("B.lean") /\ Settled("B.lean"))
            => call'.restarts = <<[s |-> FileServer("B.lean"), at |-> 0]>>
       /\ (FileRunAfterEditOfA("C.lean") /\ Settled("C.lean"))
            => /\ call'.restarts = <<>>
               /\ ~needs_restart'["C.lean"]]_vars

\* The files the next check of the project finds new or changed.
ChangedNow == ChangedFiles([file_content_hashes |-> file_content_hashes])

\* The step is a file-backed command routed by the workspace whose check of the
\* project finds a change while the import graph is not available.
FileRunWithoutGraph ==
    /\ call'.op = "run" /\ call'.s = "" /\ call'.req.kind = "FileCommand"
    /\ ChangedNow # {}
    /\ ~cache_dependencies \/ ~dependency_graph

\* C13: when no import graph is available, a detected change flags every unit that
\* has a Supervisor: the unit of the request is restarted before the request is
\* written to it, and every other unit with a Supervisor is left flagged.
C13_AllFlagged ==
    [][FileRunWithoutGraph =>
          \A g \in file_servers :
              IF g = call'.req.path
              THEN call'.restarts = <<[s |-> FileServer(g), at |-> 0]>>
              ELSE g \in DOMAIN needs_restart' /\ needs_restart'[g]]_vars

\* A command on B.lean was run after A.lean changed, the extraction of the graph
\* having failed: B's Supervisor was restarted and C's is flagged.
C13_Witness ==
    /\ call.op = "run" /\ call.s = "" /\ call.req = FileCommand("B.lean")
    /\ ~cache_dependencies /\ disk["A.lean"] # 0
    /\ call.restarts = <<[s |-> FileServer("B.lean"), at |-> 0]>>
    /\ "C.lean" \in file_servers /\ needs_restart["C.lean"]

\* The step is a run that forwards a request to the Supervisor of the unit f.
ForwardedTo(f) ==
    call'.op = "run" /\ \E i \in 1..Len(call'.fwd) : call'.fwd[i].to = FileServer(f)

\* The step is a run of a request other than a file-backed command that the
\* workspace routes to the unit f, the owner of the handle the request refers to.
RoutedByHandleTo(f) ==
    /\ call'.op = "run" /\ call'.s = "" /\ call'.req.kind # "FileCommand"
    /\ RouteToSessionServer([session_server_map |-> session_server_map], call'.req) = f

\* C14: a unit whose pending-restart flag is set is restarted before the next
\* request is forwarded to its Supervisor, be it a file-backed command for the unit
\* or a request routed to the unit because it owns the referenced handle, and the
\* flag is false after that call.
C14_LazyRestart ==
    [][\A f \in ProjectFiles :
          (f \in DOMAIN needs_restart /\ needs_restart[f]
              /\ (ForwardedTo(f) \/ RoutedByHandleTo(f)))
          => /\ call'.restarts = <<[s |-> FileServer(f), at |-> 0]>>
             /\ ~needs_restart'[f]]_vars

\* ===================================================== claims about two callers
\* C15: when two callers resolve the same handle on the same Supervisor at the same
\* time while it has no local id there, at most one of them sends a materialization
\* request for it: the request of the entry is never replayed by both.
C15_OneMaterialization ==
    \A t1, t2 \in Threads :
        (t1 # t2 /\ threads[t1].h = threads[t2].h /\ threads[t1].s = threads[t2].s
            /\ threads[t1].sent)
        => ~threads[t2].sent

\* ============================================ claims about failures of the cache
\* The answer resp is not of the variant the entry e stands for.
WrongVariant(e, resp) ==
    \/ e.is_proof_state /\ resp.kind = "CommandResponse"
    \/ ~e.is_proof_state /\ resp.kind = "ProofStepResponse"

\* The step resolves, in a Replay cache, a handle that has no local id for the
\* Supervisor, and the one request it writes is answered with an error or with a
\* response of the wrong variant.
MaterializationFailed ==
    /\ call'.op = "get_repl_id" /\ strategy = "replay"
    /\ call'.h \in DOMAIN cache
    /\ cache[call'.h].repl_ids[call'.s] = None
    /\ Len(call'.sends) = 1
    /\ \/ call'.sends[1].resp.kind = "LeanError"
       \/ WrongVariant(cache[call'.h], call'.sends[1].resp)

\* C16: a materialization answered with an error response, or with a response of the
\* wrong variant for the kind of the handle, fails the resolve with ValueError (the
\* replay failure), records no local id for the pair, and leaves the re-entrancy
\* guard of every entry empty, so that the next resolve is not rejected.
C16_ReplayFailure ==
    [][MaterializationFailed =>
          /\ call'.err = "ValueError"
          /\ cache'[call'.h].repl_ids[call'.s] = None
          /\ \A h \in DOMAIN cache' : cache'[h].materializing = {}]_vars

\* a resolve of a proof-state handle whose replay was answered with an environment
C16_Witness ==
    /\ call.op = "get_repl_id" /\ strategy = "replay"
    /\ call.err = "ValueError"
    /\ call.h \in DOMAIN cache
    /\ cache[call.h].is_proof_state
    /\ Len(call.sends) = 1 /\ call.sends[1].resp.kind = "CommandResponse"
    /\ cache[call.h].repl_ids[call.s] = None
    /\ cache[call.h].materializing = {}

\* C17: add called with a response that carries no state id (neither an environment
\* nor a proof-step response) fails with NotImplementedError and stores no entry, with
\* the Replay and with the Pickle strategy; nothing is written to a subprocess and no
\* pickle file is made.
C17_UnsupportedResponse ==
    [][(call'.op = "add" /\ call'.sends = <<>> /\ call'.resp.kind = "LeanError")
          => /\ call'.err = "NotImplementedError"
             /\ cache' = cache
             /\ files' = files]_vars

\* such an add, made on a Pickle cache that holds an entry
C17_Witness ==
    /\ call.op = "add" /\ call.resp.kind = "LeanError"
    /\ call.err = "NotImplementedError"
    /\ strategy = "pickle"
    /\ cache # Empty

\* C18: with the Pickle strategy, as with Replay, the resolve of a handle that has no
\* local id for the Supervisor writes one request to it, the request that
\* deserializes the stored file, and returns the fresh local id, never None.
C18_PickleMaterializes ==
    [][(/\ call'.op = "get_repl_id" /\ call'.err = "none"
        /\ strategy = "pickle"
        /\ call'.h \in DOMAIN cache
        /\ cache[call'.h].repl_ids[call'.s] = None)
          => /\ Len(call'.sends) = 1
             /\ call'.sends[1].req.kind \in {"UnpickleEnvironment", "UnpickleProofState"}
             /\ call'.result # None
             /\ call'.result = cache'[call'.h].repl_ids[call'.s]]_vars

\* C19: reload of a Replay cache for the Supervisor s.  Lazy: every handle loses its
\* local id for s, no request is written, and no local id of another Supervisor
\* changes.  Not lazy: when reload returns normally every handle has a local id for s
\* that is not None and was given by an answer to a request of this reload.
C19_ReloadFrame ==
    [][(call'.op = "reload" /\ strategy = "replay") =>
          /\ DOMAIN cache' = DOMAIN cache
          /\ lazy =>
                /\ call'.sends = <<>>
                /\ \A h \in DOMAIN cache :
                      /\ cache'[h].repl_ids[call'.s] = None
                      /\ \A x \in AllServers \ {call'.s} :
                            cache'[h].repl_ids[x] = cache[h].repl_ids[x]
          /\ (~lazy /\ call'.err = "none") =>
                \A h \in DOMAIN cache :
                    /\ cache'[h].repl_ids[call'.s] # None
                    /\ \E i \in 1 .. Len(call'.sends) :
                          /\ call'.sends[i].srv = call'.s
                          /\ LocalOf(call'.sends[i].resp) = cache'[h].repl_ids[call'.s]]_vars

\* a lazy reload for the Supervisor that did not create the two handles present, after
\* which they keep their ids for the creator
C19_Witness ==
    /\ call.op = "reload" /\ strategy = "replay" /\ lazy
    /\ Cardinality(DOMAIN cache) = 2
    /\ \A h \in DOMAIN cache :
          /\ cache[h].origin.s # call.s
          /\ cache[h].repl_ids[cache[h].origin.s] # None
          /\ cache[h].repl_ids[call.s] = None

\* ===================================== claims about the life of a workspace
\* C20: at most one LeanWorkspace of a working directory is live.  A construction
\* made while a workspace is live fails with RuntimeError and changes nothing of the
\* live one; a construction made after the close of the live one succeeds.
C20_OneWorkspace ==
    [][/\ Cardinality(instances'.live) <= 1
       /\ (call'.op = "construct" /\ instances.live # {})
            => /\ call'.err = "RuntimeError"
               /\ instances'.live = instances.live /\ instances'.lock = instances.lock
               /\ UNCHANGED <<cache, counter, sub, files, wsvars>>
       /\ (call'.op = "construct" /\ instances.live = {})
            => /\ call'.err = "none"
               /\ Cardinality(instances'.live) = 1
               /\ instances'.lock \in instances'.live
       /\ call'.op = "close" => instances'.lock = 0]_vars

\* the second workspace was constructed after a rejected construction and a close
C20_Witness ==
    /\ call.op = "construct" /\ call.err = "none"
    /\ instances.live = {2}
    /\ instances.rejected > 0

\* C25: when close() returns, the main server and every file server have been
\* killed; the session cache, the owners of the handles, the file servers, the content
\* hashes and the restart flags are empty; the lock on the working directory is
\* released.  A close() of a workspace that was closed before returns normally too
\* and changes none of these.
C25_CloseReleasesAll ==
    [][call'.op = "close" =>
          /\ call'.err = "none"
          /\ ~sub'[MainServer].up
          /\ \A f \in file_servers : ~sub'[FileServer(f)].up
          /\ cache' = Empty
          /\ session_server_map' = Empty
          /\ file_servers' = {}
          /\ file_content_hashes' = Empty
          /\ needs_restart' = Empty
          /\ instances'.live = {} /\ instances'.lock = 0
          /\ instances.closed > 0 =>
                /\ UNCHANGED <<cache, counter, sub, files, wsvars>>
                /\ instances'.live = instances.live /\ instances'.lock = instances.lock]_vars

\* A workspace that had run a file-backed command, with a file server and a cached
\* handle, was closed twice.
C25_Witness ==
    /\ call.op = "close"
    /\ instances.closed = 2
    /\ ~sub[FileServer("A.lean")].up
    /\ counter < 0

\* C22: the target of run, by priority.  A server passed to run is the only
\* Supervisor the request is forwarded to (and it is forwarded once when the call
\* returns normally), whatever the request is; without one, a file-backed command is
\* forwarded to the Supervisor of the file it names; without one, a request of another
\* kind that refers to no session handle is forwarded to the main server, and the
\* call makes no new file server.
C22_TargetPriority ==
    [][call'.op = "run" =>
          /\ call'.s # "" =>
                /\ \A i \in 1..Len(call'.fwd) : call'.fwd[i].to = call'.s
                /\ call'.err = "none" => Len(call'.fwd) = 1
          /\ call'.s = "" /\ call'.req.kind = "FileCommand" =>
                call'.fwd = <<[req |-> call'.req, to |-> FileServer(call'.req.path)]>>
          /\ call'.s = "" /\ call'.req.kind # "FileCommand" /\ RefHandle(call'.req) = None =>
                /\ call'.fwd = <<[req |-> call'.req, to |-> MainServer]>>
                /\ file_servers' = file_servers]_vars

\* A file-backed command on B.lean was run with the server of A.lean given, and went
\* to that server, while B.lean has no server.
C22_Witness ==
    /\ call.op = "run"
    /\ call.s = FileServer("A.lean")
    /\ call.req = FileCommand("B.lean")
    /\ call.err = "none"
    /\ call.fwd = <<[req |-> call.req, to |-> FileServer("A.lean")]>>
    /\ "B.lean" \notin file_servers

\* ================================== claims about concurrent use of a workspace
\* the Supervisor object a caller obtained for a key (not the main server)
Holds(t) == callers[t].server # None /\ callers[t].server # 0

\* Every object was made for a key of its own, the object stored under a key is the
\* one made for it, and the callers that obtained an object hold the one stored
\* under their key: the same object for the same key, another for another key.
OneSupervisorPerKey ==
    /\ \A i, j \in 1..Len(supervisors.made) :
          supervisors.made[i] = supervisors.made[j] => i = j
    /\ DOMAIN supervisors.of = file_servers
    /\ \A f \in DOMAIN supervisors.of :
          /\ supervisors.of[f] \in 1..Len(supervisors.made)
          /\ supervisors.made[supervisors.of[f]] = f
    /\ \A t \in Threads : Holds(t) => callers[t].server = supervisors.of[callers[t].f]
    /\ \A t, u \in Threads :
          Holds(t) /\ Holds(u)
             => (callers[t].f = callers[u].f <=> callers[t].server = callers[u].server)

\* C21: each key of _file_servers has one Supervisor for the life of the workspace.
\* get_server_for_file returns the same object for the same key and different objects
\* for different keys; an object is made only for a key that has none yet (its first
\* reference), and the object stored under a key is never replaced; when two threads
\* refer to a new key at the same time, in any interleaving of their statements, one
\* object is made and both obtain it.
C21_OneSupervisorPerKey ==
    /\ []OneSupervisorPerKey
    /\ [][/\ \A f \in DOMAIN supervisors.of :
                f \in DOMAIN supervisors.of' /\ supervisors.of'[f] = supervisors.of[f]
          /\ supervisors.made' # supervisors.made
                => \E f \in SessionFiles \ DOMAIN supervisors.of :
                      supervisors.made' = Append(supervisors.made, f)]_vars

\* One thread has just made the object of a key inside the locked block while the
\* other, which referred to the same key before the object existed, waits for the lock.
C21_Witness ==
    /\ callers["T1"].pc = "release"
    /\ callers["T1"].op = "get_server_for_file"
    /\ workspace_lock = "T1"
    /\ callers["T2"].pc = "acquire"
    /\ callers["T2"].f = callers["T1"].f
    /\ supervisors.made = <<callers["T1"].f>>
    /\ nops = 2

\* the callers whose request is outstanding on the subprocess of the Supervisor i
InFlight(i) == {t \in Threads : callers[t].pc = "reply" /\ callers[t].server = i}

\* C23: a Supervisor has at most one request outstanding on its subprocess.  Of two
\* threads whose requests are bound to the same Supervisor, one writes its request
\* only when the other's has been answered (also the pickle request the workspace
\* cache sends after a run); the workspace lock is not held by a thread that is
\* forwarding, so that requests bound to different Supervisors are outstanding together.
C23_OneOutstanding ==
    /\ [](/\ \A i \in 0..Len(supervisors.made) : Cardinality(InFlight(i)) <= 1
          /\ \A t \in Threads : callers[t].pc \in {"send", "reply", "cache"}
                                   => workspace_lock # t)
    /\ [][\A t \in Threads :
             callers[t].pc = "cache" /\ callers'[t].pc # "cache"
                => InFlight(callers[t].server) = {}]_vars

\* Two requests are outstanding at once, on the Supervisors of two files.
C23_Witness ==
    /\ callers["T1"].pc = "reply"
    /\ callers["T2"].pc = "reply"
    /\ Holds("T1") /\ Holds("T2")
    /\ callers["T1"].server # callers["T2"].server
    /\ workspace_lock = ""

\* the tables of the workspace that its lock is there to guard
SharedTables == <<file_servers, needs_restart, file_content_hashes, session_server_map>>

\* C24: every write to the shared tables of the workspace (the file servers, the
\* content hashes, the restart flags, the owners of the handles) is made by a thread
\* that holds the workspace lock while it writes.
C24_WritesUnderLock ==
    [][SharedTables' # SharedTables
          => \E t \in Threads : callers'[t] # callers[t] /\ workspace_lock = t]_vars

\* Two threads are inside _check_project_changes together, between its writes to the
\* hashes and its writes to the flags, and nobody holds the lock.
C24_BothWriting ==
    /\ callers["T1"].pc = "mark"
    /\ callers["T2"].pc = "mark"
    /\ workspace_lock = ""

\* ===================================== claims about the life of a Supervisor
\* a run of the automatic Supervisor has just returned or failed
AutoRan == call'.op = "run" /\ call'.s = MainServer

WrittenOnce(c) ==
    /\ c.sends # <<>>
    /\ c.sends[Len(c.sends)].req = c.req
    /\ c.sends[Len(c.sends)].resp = NoResp
    /\ \A i \in 1..(Len(c.sends) - 1) : c.sends[i].resp # NoResp
    /\ \A i \in 1..Len(c.restarts) : c.restarts[i].at < Len(c.sends)

FirstIdZero(c) ==
    \/ c.sends = <<>>
    \/ c.sends[1].resp.kind = "CommandResponse" /\ c.sends[1].resp.env = 0
    \/ c.sends[1].resp.kind = "ProofStepResponse" /\ c.sends[1].resp.proof_state = 0
    \/ c.sends[1].resp.kind \notin {"CommandResponse", "ProofStepResponse"}

\* C29: a run of the automatic Supervisor whose subprocess is not alive (after kill,
\* a timeout or a crash; its restart attempts not used up), with the memory below the
\* ceiling, starts one fresh subprocess before anything is written; the call does not
\* fail with ChildProcessError, a request that refers to no handle is answered, the
\* local ids of the answers start from 0, and the Supervisor is alive afterwards
\* (unless the new subprocess fails in turn).
C29_RestartWhenDown ==
    [][AutoRan /\ ~sub[MainServer].up /\ ~sub[MainServer].spent /\ call'.high = 0
          => /\ Len(call'.restarts) = 1 /\ call'.restarts[1].at = 0
             /\ call'.err # "ChildProcessError"
             /\ FirstIdZero(call')
             /\ call'.fault = "none" => sub'[MainServer].up
             /\ call'.fault = "none" /\ RefHandle(call'.req) = None
                   => call'.err = "none" /\ call'.sends # <<>>]_vars

\* a run has started a fresh subprocess with the memory below the ceiling, and was
\* answered with the local id 0
C29_Witness ==
    /\ call.op = "run" /\ call.s = MainServer
    /\ call.high = 0 /\ call.err = "none"
    /\ Len(call.restarts) = 1
    /\ call.sends = <<[req |-> call.req, resp |-> CommandResponse(0), srv |-> MainServer]>>
    /\ sub[MainServer].up

\* the number of requests a run on a handle-free request writes by itself: the
\* request, and the pickle request of a Pickle cache that stores the answer
OwnWrites(c) == IF c.add /\ strategy = "pickle" THEN 2 ELSE 1

C31_RemoveAndClear ==
    [][/\ call'.op = "remove_from_session_cache"
            => /\ call'.err = "none"
               /\ call'.h \notin DOMAIN cache'
               /\ call'.h \notin DOMAIN session_server_map'
               /\ DOMAIN cache' = DOMAIN cache \ {call'.h}
               /\ DOMAIN session_server_map' = DOMAIN session_server_map \ {call'.h}
               /\ \A k \in DOMAIN cache' : cache'[k] = cache[k]
               /\ \A k \in DOMAIN session_server_map' :
                     session_server_map'[k] = session_server_map[k]
       /\ call'.op = "clear_session_cache"
            => /\ call'.err = "none"
               /\ cache' = Empty
               /\ session_server_map' = Empty]_vars

\* one of two cached handles has been removed, the other is still there
C31_Witness ==
    /\ call.op = "remove_from_session_cache"
    /\ \E i \in 1..Len(hist) : hist[i] = call.h
    /\ DOMAIN cache # {}
    /\ DOMAIN session_server_map = DOMAIN cache

\* the request sent is the stored one, with a local id in place of the handle it
\* refers to when it refers to one
Instantiates(sent, stored) ==
    IF RefHandle(stored) = None THEN sent = stored
    ELSE \E id \in 0..MaxLocal : sent = WithLocalId(stored, id)

\* C32: the request stored for a handle is the value the caller's request had when
\* add was called; it never changes while the handle is cached, whatever the caller
\* does to its request object and however often the handle is materialized or
\* reloaded; a resolve that materializes a handle and returns sends, last, that
\* stored request (with a local id in place of the handle it refers to), and every
\* request written to a subprocess is the caller's or a stored one.
C32_ReplayOfCopy ==
    [][/\ \A h \in DOMAIN cache' \ DOMAIN cache : cache'[h].request = call'.req
       /\ \A h \in DOMAIN cache \cap DOMAIN cache' : cache'[h].request = cache[h].request
       /\ (call'.op = "get_repl_id" /\ call'.sends # <<>> /\ call'.err = "none")
             => Instantiates(call'.sends[Len(call'.sends)].req, cache[call'.h].request)
       /\ call'.op \in {"get_repl_id", "restart", "run"}
             => \A i \in 1..Len(call'.sends) :
                   \/ call'.op = "run" /\ Instantiates(call'.sends[i].req, call'.req)
                   \/ \E h \in DOMAIN cache :
                         Instantiates(call'.sends[i].req, cache[h].request)]_vars

\* a handle is replayed after the caller changed the request object it had passed to
\* add: the replay sends the request as it was at add time
C32_Witness ==
    /\ call.op = "get_repl_id"
    /\ call.h \in DOMAIN cache
    /\ call.sends # <<>> /\ call.err = "none"
    /\ objects[0 - call.h] # cache[call.h].request
    /\ call.sends[Len(call.sends)].req = cache[call.h].request

\* ================================== claims about the dependencies of a unit
\* the modules that the modules of ns import, and those that n imports directly or
\* through other modules
Imported(ns) == {e[2] : e \in {d \in DepEdges : d[1] \in ns}}
RECURSIVE ImportedFrom(_, _)
ImportedFrom(ns, k) ==
    IF k = 0 THEN {} ELSE Imported(ns) \cup ImportedFrom(Imported(ns), k - 1)
DependsOn(n) == ImportedFrom({n}, Cardinality(GraphNodes))

\* C33: get_file_dependencies(f) returns exactly the files of the modules that f
\* imports, directly or through other modules, when dependency caching is on, the
\* graph is loaded and f is in it, and the empty set otherwise.
C33_ExactDependencies ==
    [][call'.op = "get_file_dependencies"
          => call'.deps =
                IF cache_dependencies' /\ dependency_graph'
                      /\ ModuleName(call'.s) \in GraphNodes
                THEN {FileOfModule(m) : m \in DependsOn(ModuleName(call'.s))}
                ELSE {}]_vars

\* ============================ claims about the backing files of a Pickle cache
\* the thread t is between taking and releasing the FileLock of its file
InSection(t) == accessors[t].pc \in {"write", "store", "read", "delete", "release"}

\* C34: under the Pickle strategy the pickle request of add, the unpickle request of
\* reload and the os.remove of remove and clear happen while the thread holds the
\* FileLock of the file, so no two threads are inside such a section for one file
\* (a delete never overlaps a reload of the same artifact), and when the delete of
\* remove or clear is done the file of the removed handle is gone.
C34_LockedAccess ==
    /\ \A t \in Threads :
          InSection(t) => /\ accessors[t].file \in DOMAIN file_locks
                          /\ file_locks[accessors[t].file] = t
    /\ \A t \in Threads, u \in Threads :
          (t # u /\ InSection(t) /\ InSection(u)) => accessors[t].file # accessors[u].file
    /\ \A t \in Threads :
          (accessors[t].op \in {"remove", "clear"} /\ accessors[t].pc = "release")
             => accessors[t].file \notin DOMAIN files

\* a reload is reading an artifact while a remove or a clear of another thread, which
\* has already taken the handle out of the cache, waits for the lock of that artifact
C34_Witness ==
    \E t \in Threads, u \in Threads :
       /\ accessors[t].op = "reload" /\ accessors[t].pc = "read"
       /\ accessors[u].op \in {"remove", "clear"} /\ accessors[u].pc = "acquire"
       /\ accessors[u].file = accessors[t].file
       /\ accessors[t].file \in DOMAIN files

\* C35: no two handles that are in a PickleSessionCache at the same time have the
\* same backing file, and so the backing file of every cached handle exists: a
\* remove of another handle does not delete it.
C35_OwnBackingFile ==
    strategy = "pickle"
       => /\ \A h \in DOMAIN cache, k \in DOMAIN cache :
                h # k => cache[h].pickle_file # cache[k].pickle_file
          /\ (call.op \in {"remove", "run"} /\ call.err = "none")
                => \A h \in DOMAIN cache : cache[h].pickle_file \in DOMAIN files

\* ======================================= claims about restart_all_servers
\* C36: restart_all_servers called on a workspace that has at least one unit
\* Supervisor returns in the end, with the workspace mutex no longer held by the
\* caller and no restart flag of a unit Supervisor set.
C36_RestartAllReturns ==
    \A t \in Threads :
       (callers[t].op = "restart_all_servers" /\ callers[t].pc = "all_next"
           /\ callers[t].changed # {})
          ~> (/\ callers[t].op = "restart_all_servers" /\ callers[t].pc = "done"
              /\ workspace_lock # t
              /\ \A f \in file_servers : f \in DOMAIN needs_restart => ~needs_restart[f])

\* ============================ claims about the ownership map of a workspace
\* C37: after every call of run, remove_from_session_cache, clear_session_cache,
\* invalidate_dependency_cache and close on a workspace, also one that ends in an
\* error, the handles of the ownership map are the handles of the session cache.
C37_OwnersAreCached == DOMAIN session_server_map = DOMAIN cache

\* a run whose add failed on the pickle request, while a handle is cached
C37_Witness ==
    /\ call.op = "run" /\ call.add /\ call.err = "ValueError"
    /\ cache # Empty
    /\ DOMAIN session_server_map = DOMAIN cache

\* ============================= claims about a reload that fails partway
\* the local id that h has for call'.s after the step was given by this call: by the
\* answer to a replay of the stored request of h
FreshlyMaterialized(h) ==
    \E i \in 1 .. Len(call'.sends) :
       /\ call'.sends[i].srv = call'.s
       /\ Instantiates(call'.sends[i].req, cache[h].request)
       /\ LocalOf(call'.sends[i].resp) = cache'[h].repl_ids[call'.s]

\* C38: after a reload of a Replay cache that is not lazy and that fails (the replay
\* of some handle raises), every handle has for the Supervisor of the reload either
\* no local id or one given by a replay of this reload; none keeps the id it had
\* before.
C38_NoStaleAfterFailedReload ==
    [][(/\ call'.op = "reload" /\ strategy = "replay" /\ ~lazy
        /\ call'.err # "none")
          => \A h \in DOMAIN cache' :
                cache'[h].repl_ids[call'.s] = None \/ FreshlyMaterialized(h)]_vars

\* ======================================== claims about an add that fails
\* The step is a call of add, by a client or by a cached run, that raised: the
\* response has no state id (NotImplementedError), or the pickle request was answered
\* with an error response (ValueError).
AddFailed ==
    \/ call'.op = "add" /\ call'.err \in {"NotImplementedError", "ValueError"}
    \/ /\ call'.op = "run" /\ call'.add /\ call'.err = "ValueError"
       /\ call'.sends # <<>>
       /\ call'.sends[Len(call'.sends)].req.kind \in {"PickleEnvironment", "PickleProofState"}

\* The step is a call of add that returned a handle.
AddSucceeded ==
    /\ call'.op \in {"add", "run"} /\ call'.add /\ call'.err = "none"
    /\ call'.result # None

C40_RestartOnlyOnChange ==
    [][(/\ call'.op = "run" /\ call'.s = ""
        /\ call'.req.kind = "FileCommand"
        /\ Settled(call'.req.path)
        /\ \A g \in DOMAIN disk : ~ModifiedSinceSeen(g))
          => call'.restarts = <<>>]_vars

====
